---- MODULE Spec2Model ----
(***************************************************************************)
(* Model of the Mach-O decoder of apple-core (core/services/               *)
(* parser_service.py and core/utils/endian_utils.py).                      *)
(*                                                                         *)
(* A source is a sequence of bytes; file offset p is element p + 1.        *)
(* Words that are used as numbers are integers; the magic words, which     *)
(* exceed the checker's integer range, are kept as their four bytes, most  *)
(* significant first (0xFEEDFACE is <<254, 237, 250, 206>>).               *)
(***************************************************************************)
EXTENDS Integers, Sequences, FiniteSets, TLC

VARIABLES
    src,            \* the bytes of the file being parsed
    pos,            \* position of the open file object f
    pc,             \* position in parse_file
    err,            \* the exception parse_file raised, "" when none
    fat_header,     \* ParsedFatHeader of the fat branch
    fat_arch,       \* ParsedFatArch of the slice being parsed
    arch_i,         \* loop index i of the fat branch
    original_pos,   \* saved position of the fat branch
    header_data,    \* ParsedHeader returned by parse_header
    load_commands,  \* list built by parse_load_commands
    cmd_i,          \* loop index i of parse_load_commands
    macho_file,     \* id of the MachoFile record of this parse, 0 when none
    header_id,      \* id of the Header record of the current slice
    session,        \* records added to db.session, not yet committed
    db_store,       \* committed records
    symtab_cmd,     \* symtab_cmd argument of parse_symbol_table
    sym_magic,      \* magic argument of parse_symbol_table
    string_table,   \* string_table of parse_symbol_table
    symbols,        \* list built by parse_symbol_table
    sym_i,          \* loop index i of parse_symbol_table
    xref_file_id,   \* file_id argument of identify_cross_references
    xref_count,     \* xref_count of identify_cross_references
    xref_i,         \* position in the symbols of the loop being run
    returned,       \* what the calls of identify_cross_references returned, in order
    filepath,       \* filepath argument of extract_file_metadata
    calls,          \* number of calls of extract_file_metadata made
    result          \* outcome of the last call of extract_file_metadata

\* the variables of parse_symbol_table
symvars == <<symtab_cmd, sym_magic, string_table, symbols, sym_i>>

\* the variables of parse_file other than the file object and the outcome
filevars == <<fat_header, fat_arch, arch_i, original_pos, header_data, load_commands,
              cmd_i, macho_file, header_id, session, db_store>>

\* the variables of identify_cross_references
xrefvars == <<xref_file_id, xref_count, xref_i, returned>>

\* the variables of extract_file_metadata
metavars == <<filepath, calls, result>>

vars == <<src, pos, pc, err, fat_header, fat_arch, arch_i, original_pos,
          header_data, load_commands, cmd_i, macho_file, header_id,
          session, db_store, symtab_cmd, sym_magic, string_table, symbols, sym_i,
          xref_file_id, xref_count, xref_i, returned, filepath, calls, result>>

(***************************************************************************)
(* Bounds of the inputs.                                                   *)
(***************************************************************************)
MaxCmds == 2
MaxArch == 2

(***************************************************************************)
(* Sequences of bytes.                                                     *)
(***************************************************************************)
Min(a, b) == IF a < b THEN a ELSE b

Reverse(s) == [k \in 1..Len(s) |-> s[Len(s) + 1 - k]]

Zeros(n) == [k \in 1..n |-> 0]

\* file.read(n) at position p: at most n bytes, fewer at the end of the file
Read(s, p, n) == IF p >= Len(s) THEN << >> ELSE SubSeq(s, p + 1, Min(p + n, Len(s)))

(***************************************************************************)
(* endian_utils.py                                                         *)
(***************************************************************************)
LITTLE == "LITTLE"
BIG == "BIG"

RECURSIVE Horner(_, _)
Horner(acc, bytes) ==
    IF bytes = << >> THEN acc ELSE Horner(acc * 256 + Head(bytes), Tail(bytes))

\* the bytes of a word, most significant first, under struct format '<' or '>'
MsbFirst(bytes, endianness) == IF endianness = LITTLE THEN Reverse(bytes) ELSE bytes

\* struct.unpack of one unsigned integer of Len(bytes) bytes
unpack(bytes, endianness) == Horner(0, MsbFirst(bytes, endianness))

MAGIC_32_LE == <<254, 237, 250, 206>>
MAGIC_64_LE == <<254, 237, 250, 207>>
MAGIC_32_BE == <<206, 250, 237, 254>>
MAGIC_64_BE == <<207, 250, 237, 254>>
FAT_MAGIC == <<202, 254, 186, 190>>
FAT_MAGIC_64 == <<202, 254, 186, 191>>

\* detect_endianness(magic): "ValueError" stands for the raise
detect_endianness(magic) ==
    IF magic \in {MAGIC_32_LE, MAGIC_64_LE} THEN LITTLE
    ELSE IF magic \in {MAGIC_32_BE, MAGIC_64_BE} THEN BIG
    ELSE "ValueError"

is_64_bit(magic) == magic \in {MAGIC_64_LE, MAGIC_64_BE}

\* read_uint32 / read_uint64: [ok, val, pos]; not ok is struct.error
read_uint(s, p, n, endianness) ==
    LET data == Read(s, p, n) IN
    [ok |-> Len(data) = n,
     val |-> IF Len(data) = n THEN unpack(data, endianness) ELSE 0,
     pos |-> p + Len(data)]

read_uint32(s, p, endianness) == read_uint(s, p, 4, endianness)

read_uint64(s, p, endianness) == read_uint(s, p, 8, endianness)

(***************************************************************************)
(* parser_service.py: the thin header and the load-command walk            *)
(***************************************************************************)
NoHeader ==
    [magic |-> << >>, cpu_type |-> 0, cpu_subtype |-> 0, file_type |-> 0, ncmds |-> 0,
     sizeofcmds |-> 0, flags |-> 0, reserved |-> << >>, is_64_bit |-> FALSE,
     endianness |-> LITTLE]

Raise(kind, p) == [ok |-> FALSE, err |-> kind, pos |-> p]

\* reserved kept for a header of either word size
header_reserved_always(is64, word) == <<word>>

\* reserved of ParsedHeader: read_uint32 in the 64-bit branch, the default None in the
\* 32-bit branch; << >> stands for None and <<word>> for a word
header_reserved(is64, word) == IF is64 THEN <<word>> ELSE << >>

\* the magic as unpacked with '<I' before the byte order is known
header_magic_little(bytes, endianness) == MsbFirst(bytes, LITTLE)

\* magic of ParsedHeader: the first word of read_format in the detected byte order
header_magic(bytes, endianness) == MsbFirst(bytes, endianness)

\* parse_header(file) with the file at position p: [ok, err, pos, header].
parse_header(s, p) ==
    LET magic_bytes == Read(s, p, 4)
        back        == p + Len(magic_bytes) - 4
        magic       == MsbFirst(magic_bytes, LITTLE)
        endianness  == detect_endianness(magic)
        is64        == is_64_bit(magic)
        data        == Read(s, back, 28)
        field(k)    == SubSeq(data, 4 * k + 1, 4 * k + 4)
        reserved    == read_uint32(s, back + 28, endianness)
    IN  IF back < 0 THEN Raise("OSError", p + Len(magic_bytes))
        ELSE IF Len(magic_bytes) # 4 THEN Raise("struct.error", back)
        ELSE IF endianness = "ValueError" THEN Raise("ValueError", back)
        ELSE IF Len(data) # 28 THEN Raise("struct.error", back + Len(data))
        ELSE IF is64 /\ ~reserved.ok THEN Raise("struct.error", reserved.pos)
        ELSE [ok |-> TRUE, err |-> "",
              pos |-> IF is64 THEN reserved.pos ELSE back + 28,
              header |->
                [magic       |-> header_magic(field(0), endianness),
                 cpu_type    |-> unpack(field(1), endianness),
                 cpu_subtype |-> unpack(field(2), endianness),
                 file_type   |-> unpack(field(3), endianness),
                 ncmds       |-> unpack(field(4), endianness),
                 sizeofcmds  |-> unpack(field(5), endianness),
                 flags       |-> unpack(field(6), endianness),
                 reserved    |-> header_reserved(is64, reserved.val),
                 is_64_bit   |-> is64,
                 endianness  |-> endianness]]

\* start_offset without the case of the 64-bit header
start_offset_32_only(is64) == 28

\* start_offset of parse_load_commands
start_offset(is64) == IF is64 THEN 32 ELSE 28

\* one iteration of the loop of parse_load_commands at position p: [ok, err, pos, cmd]
load_command_at(s, p, endianness) ==
    LET cmd_type == read_uint32(s, p, endianness)
        cmd_size == read_uint32(s, cmd_type.pos, endianness)
        cmd_data == Read(s, p, cmd_size.val)
    IN  IF ~cmd_type.ok THEN Raise("struct.error", cmd_type.pos)
        ELSE IF ~cmd_size.ok THEN Raise("struct.error", cmd_size.pos)
        ELSE [ok |-> TRUE, err |-> "", pos |-> p + Len(cmd_data),
              cmd |-> [cmd_type |-> cmd_type.val, cmd_size |-> cmd_size.val,
                       cmd_offset |-> p, cmd_data |-> cmd_data]]

(***************************************************************************)
(* parser_service.py: the segment / section decoder                        *)
(***************************************************************************)
LC_SEGMENT == 1
LC_SEGMENT_64 == 25

Continuation(b) == b >= 128 /\ b <= 191

\* number of bytes of the UTF-8 sequence that starts bytes, 0 when it is invalid
utf8_length(bytes) ==
    LET n  == Len(bytes)
        b1 == bytes[1]
        c(k) == n >= k /\ Continuation(bytes[k])
    IN  IF b1 < 128 THEN 1
        ELSE IF b1 >= 194 /\ b1 <= 223 THEN (IF c(2) THEN 2 ELSE 0)
        ELSE IF b1 = 224 THEN (IF c(2) /\ bytes[2] >= 160 /\ c(3) THEN 3 ELSE 0)
        ELSE IF b1 = 237 THEN (IF c(2) /\ bytes[2] <= 159 /\ c(3) THEN 3 ELSE 0)
        ELSE IF b1 >= 225 /\ b1 <= 239 THEN (IF c(2) /\ c(3) THEN 3 ELSE 0)
        ELSE IF b1 = 240 THEN (IF c(2) /\ bytes[2] >= 144 /\ c(3) /\ c(4) THEN 4 ELSE 0)
        ELSE IF b1 = 244 THEN (IF c(2) /\ bytes[2] <= 143 /\ c(3) /\ c(4) THEN 4 ELSE 0)
        ELSE IF b1 >= 241 /\ b1 <= 243 THEN (IF c(2) /\ c(3) /\ c(4) THEN 4 ELSE 0)
        ELSE 0

\* the code point of a valid UTF-8 sequence of n bytes
code_point(bytes, n) ==
    IF n = 1 THEN bytes[1]
    ELSE IF n = 2 THEN (bytes[1] - 192) * 64 + (bytes[2] - 128)
    ELSE IF n = 3 THEN (bytes[1] - 224) * 4096 + (bytes[2] - 128) * 64 + (bytes[3] - 128)
    ELSE (bytes[1] - 240) * 262144 + (bytes[2] - 128) * 4096
         + (bytes[3] - 128) * 64 + (bytes[4] - 128)

\* bytes.decode('utf-8'): [ok, str], str the code points; not ok is UnicodeDecodeError
RECURSIVE decode_utf8(_)
decode_utf8(bytes) ==
    IF bytes = << >> THEN [ok |-> TRUE, str |-> << >>]
    ELSE LET n    == utf8_length(bytes)
             rest == decode_utf8(SubSeq(bytes, n + 1, Len(bytes)))
         IN  IF n = 0 \/ ~rest.ok THEN [ok |-> FALSE, str |-> << >>]
             ELSE [ok |-> TRUE, str |-> <<code_point(bytes, n)>> \o rest.str]

\* str.rstrip('\0')
RECURSIVE rstrip_nul(_)
rstrip_nul(str) ==
    IF str # << >> /\ str[Len(str)] = 0 THEN rstrip_nul(SubSeq(str, 1, Len(str) - 1))
    ELSE str

\* second byte a UTF-8 sequence with lead byte b1 may go on with
SecondByte(b1, b2) ==
    IF b1 = 224 THEN b2 >= 160 /\ b2 <= 191
    ELSE IF b1 = 237 THEN b2 >= 128 /\ b2 <= 159
    ELSE IF b1 = 240 THEN b2 >= 144 /\ b2 <= 191
    ELSE IF b1 = 244 THEN b2 >= 128 /\ b2 <= 143
    ELSE Continuation(b2)

\* number of bytes that errors='replace' turns into one U+FFFD where bytes does not
\* start with a valid sequence: the lead byte and the continuation bytes that fit it
invalid_length(bytes) ==
    LET n  == Len(bytes)
        b1 == bytes[1]
    IN  IF b1 < 194 \/ b1 > 244 THEN 1
        ELSE IF n < 2 \/ ~SecondByte(b1, bytes[2]) THEN 1
        ELSE IF b1 <= 223 THEN 1
        ELSE IF n < 3 \/ ~Continuation(bytes[3]) THEN 2
        ELSE IF b1 <= 239 THEN 2
        ELSE 3

REPLACEMENT_CHARACTER == 65533

\* bytes.decode('utf-8', errors='replace'): the code points
RECURSIVE decode_utf8_replace(_)
decode_utf8_replace(bytes) ==
    IF bytes = << >> THEN << >>
    ELSE IF utf8_length(bytes) > 0
    THEN <<code_point(bytes, utf8_length(bytes))>>
         \o decode_utf8_replace(SubSeq(bytes, utf8_length(bytes) + 1, Len(bytes)))
    ELSE <<REPLACEMENT_CHARACTER>>
         \o decode_utf8_replace(SubSeq(bytes, invalid_length(bytes) + 1, Len(bytes)))

\* the unsigned integer of w bytes at offset off of the bytes d
uint_at(d, off, w, endianness) == unpack(SubSeq(d, off + 1, off + w), endianness)

\* _parse_segment_command(cmd, endianness, is_64_bit): [ok, err, segment].
\* The reads follow one another from offset 24 on, so the first short read is there
\* exactly when cmd_data is shorter than the 24 + 4 * w + 16 bytes read.
parse_segment_command(cmd, endianness, is64) ==
    LET d == cmd.cmd_data
        w == IF is64 THEN 8 ELSE 4
    IN  IF ~decode_utf8(Read(d, 8, 16)).ok THEN [ok |-> FALSE, err |-> "UnicodeDecodeError"]
        ELSE IF Len(d) < 24 + 4 * w + 16 THEN [ok |-> FALSE, err |-> "struct.error"]
        ELSE [ok |-> TRUE, err |-> "",
              segment |->
                [segname    |-> rstrip_nul(decode_utf8(Read(d, 8, 16)).str),
                 vmaddr     |-> uint_at(d, 24, w, endianness),
                 vmsize     |-> uint_at(d, 24 + w, w, endianness),
                 fileoff    |-> uint_at(d, 24 + 2 * w, w, endianness),
                 filesize   |-> uint_at(d, 24 + 3 * w, w, endianness),
                 maxprot    |-> uint_at(d, 24 + 4 * w, 4, endianness),
                 initprot   |-> uint_at(d, 24 + 4 * w + 4, 4, endianness),
                 nsects     |-> uint_at(d, 24 + 4 * w + 8, 4, endianness),
                 flags      |-> uint_at(d, 24 + 4 * w + 12, 4, endianness),
                 cmd_offset |-> cmd.cmd_offset,
                 is_64_bit  |-> is64,
                 sections   |-> << >>]]

\* section_offset of _parse_sections
section_offset(is64) == IF is64 THEN 72 ELSE 56

\* one iteration of the loop of _parse_sections on the bytes d at position p:
\* [ok, err, pos, section].  The two names are read and decoded first; the reads from
\* p + 32 on follow one another, the first short one is there exactly when d is shorter
\* than p + 32 + 2 * w + 20; cmd_io.read of the reserved words takes what is left.
section_at(d, p, endianness, is64) ==
    LET w == IF is64 THEN 8 ELSE 4 IN
    IF ~decode_utf8(Read(d, p, 16)).ok \/ ~decode_utf8(Read(d, p + 16, 16)).ok
    THEN [ok |-> FALSE, err |-> "UnicodeDecodeError"]
    ELSE IF Len(d) < p + 32 + 2 * w + 20 THEN [ok |-> FALSE, err |-> "struct.error"]
    ELSE [ok |-> TRUE, err |-> "",
          pos |-> p + 32 + 2 * w + 20
                  + Len(Read(d, p + 32 + 2 * w + 20, IF is64 THEN 12 ELSE 8)),
          section |->
            [sectname |-> rstrip_nul(decode_utf8(Read(d, p, 16)).str),
             segname  |-> rstrip_nul(decode_utf8(Read(d, p + 16, 16)).str),
             addr     |-> uint_at(d, p + 32, w, endianness),
             size     |-> uint_at(d, p + 32 + w, w, endianness),
             offset   |-> uint_at(d, p + 32 + 2 * w, 4, endianness),
             align    |-> uint_at(d, p + 32 + 2 * w + 4, 4, endianness),
             flags    |-> uint_at(d, p + 32 + 2 * w + 16, 4, endianness)]]

\* the section put behind the sections read after it
append_section_last(section, rest) ==
    IF ~rest.ok THEN rest
    ELSE [ok |-> TRUE, err |-> "", sections |-> rest.sections \o <<section>>]

\* sections.append(section): the result of the rest of the loop behind one section
append_section(section, rest) ==
    IF ~rest.ok THEN rest
    ELSE [ok |-> TRUE, err |-> "", sections |-> <<section>> \o rest.sections]

\* the loop of _parse_sections with n sections left to read: [ok, err, sections]
RECURSIVE sections_from(_, _, _, _, _)
RECURSIVE sections_after(_, _, _, _, _)
sections_after(d, one, n, endianness, is64) ==
    IF ~one.ok THEN [ok |-> FALSE, err |-> one.err, sections |-> << >>]
    ELSE append_section(one.section, sections_from(d, one.pos, n - 1, endianness, is64))

sections_from(d, p, n, endianness, is64) ==
    IF n = 0 THEN [ok |-> TRUE, err |-> "", sections |-> << >>]
    ELSE sections_after(d, section_at(d, p, endianness, is64), n, endianness, is64)

\* _parse_sections(cmd, segment, endianness, is_64_bit)
parse_sections(cmd, segment, endianness, is64) ==
    sections_from(cmd.cmd_data, section_offset(is64), segment.nsects, endianness, is64)

\* segment.sections = ... of parse_segments_and_sections: [ok, err, segment]
with_sections(seg, secs) ==
    IF ~secs.ok THEN [ok |-> FALSE, err |-> secs.err]
    ELSE [ok |-> TRUE, err |-> "",
          segment |-> [seg.segment EXCEPT !.sections = secs.sections]]

\* the body of the loop of parse_segments_and_sections for the decoded segment seg
segment_sections(cmd, seg, endianness, is64) ==
    IF ~seg.ok THEN seg
    ELSE IF seg.segment.nsects > 0
    THEN with_sections(seg, parse_sections(cmd, seg.segment, endianness, is64))
    ELSE seg

\* segments.append(segment): the result of the rest of the loop behind one segment
append_segment(one, rest) ==
    IF ~rest.ok THEN rest
    ELSE [ok |-> TRUE, err |-> "", segments |-> <<one.segment>> \o rest.segments]

\* the test of the command type without LC_SEGMENT_64
is_segment_command_32(cmd_type) == cmd_type = LC_SEGMENT

\* if cmd.cmd_type == LC_SEGMENT or cmd.cmd_type == LC_SEGMENT_64
is_segment_command(cmd_type) == cmd_type = LC_SEGMENT \/ cmd_type = LC_SEGMENT_64

\* parse_segments_and_sections(file, header, load_commands): [ok, err, segments]
RECURSIVE parse_segments_and_sections(_, _)
RECURSIVE segments_after(_, _, _)
segments_after(header, one, cmds) ==
    IF ~one.ok THEN [ok |-> FALSE, err |-> one.err, segments |-> << >>]
    ELSE append_segment(one, parse_segments_and_sections(header, cmds))

parse_segments_and_sections(header, cmds) ==
    IF cmds = << >> THEN [ok |-> TRUE, err |-> "", segments |-> << >>]
    ELSE IF is_segment_command(Head(cmds).cmd_type)
    THEN segments_after(header,
             segment_sections(Head(cmds),
                 parse_segment_command(Head(cmds), header.endianness, header.is_64_bit),
                 header.endianness, header.is_64_bit),
             Tail(cmds))
    ELSE parse_segments_and_sections(header, Tail(cmds))

(***************************************************************************)
(* parser_service.py: the fat header and the arch descriptors              *)
(***************************************************************************)
\* is_fat_binary unpacking the magic with '<I'
is_fat_binary_little(s, p) ==
    LET magic_bytes == Read(s, p, 4) IN
    IF Len(magic_bytes) = 4
    THEN MsbFirst(magic_bytes, LITTLE) \in {FAT_MAGIC, FAT_MAGIC_64}
    ELSE FALSE

\* is_fat_binary(file) at position p; the position is restored
is_fat_binary(s, p) ==
    LET magic_bytes == Read(s, p, 4) IN
    IF Len(magic_bytes) = 4
    THEN MsbFirst(magic_bytes, BIG) \in {FAT_MAGIC, FAT_MAGIC_64}
    ELSE FALSE

\* parse_fat_header(file) at position p: [ok, err, pos, fat_header]
parse_fat_header(s, p) ==
    LET magic_bytes == Read(s, p, 4)
        nfat_arch   == read_uint32(s, p + Len(magic_bytes), BIG)
    IN  IF Len(magic_bytes) # 4 THEN Raise("struct.error", p + Len(magic_bytes))
        ELSE IF ~nfat_arch.ok THEN Raise("struct.error", nfat_arch.pos)
        ELSE [ok |-> TRUE, err |-> "", pos |-> nfat_arch.pos,
              fat_header |->
                [magic     |-> MsbFirst(magic_bytes, BIG),
                 nfat_arch |-> nfat_arch.val,
                 is_64_bit |-> MsbFirst(magic_bytes, BIG) = FAT_MAGIC_64]]

\* parse_fat_arch(file, is_64_bit) at position p: [ok, err, pos, fat_arch]
parse_fat_arch(s, p, is64) ==
    LET cputype    == read_uint32(s, p, BIG)
        cpusubtype == read_uint32(s, cputype.pos, BIG)
        w          == IF is64 THEN 8 ELSE 4
        offset     == read_uint(s, cpusubtype.pos, w, BIG)
        size       == read_uint(s, offset.pos, w, BIG)
        align      == read_uint32(s, size.pos, BIG)
    IN  IF ~cputype.ok THEN Raise("struct.error", cputype.pos)
        ELSE IF ~cpusubtype.ok THEN Raise("struct.error", cpusubtype.pos)
        ELSE IF ~offset.ok THEN Raise("struct.error", offset.pos)
        ELSE IF ~size.ok THEN Raise("struct.error", size.pos)
        ELSE IF ~align.ok THEN Raise("struct.error", align.pos)
        ELSE [ok |-> TRUE, err |-> "",
              pos |-> IF is64 THEN align.pos + Len(Read(s, align.pos, 4)) ELSE align.pos,
              fat_arch |->
                [cputype |-> cputype.val, cpusubtype |-> cpusubtype.val,
                 offset |-> offset.val, size |-> size.val, align |-> align.val]]

(***************************************************************************)
(* The sources parsed: images built the way the tests build them           *)
(* (struct.pack of the fields, tests/test_macho_parser.py and              *)
(* tests/test_fat_binary.py).                                              *)
(***************************************************************************)
RECURSIVE Flatten(_)
Flatten(ss) == IF ss = << >> THEN << >> ELSE Head(ss) \o Flatten(Tail(ss))

RECURSIVE SeqsUpTo(_, _)
SeqsUpTo(S, n) ==
    IF n = 0 THEN {<< >>}
    ELSE LET shorter == SeqsUpTo(S, n - 1) IN
         shorter \cup {Append(q, x) : q \in {t \in shorter : Len(t) = n - 1}, x \in S}

\* struct.pack of an unsigned integer of w bytes
pack(n, w, endianness) ==
    LET lsb == [k \in 1..w |-> IF k > 4 THEN 0
                               ELSE (n \div (CASE k = 1 -> 1 [] k = 2 -> 256
                                               [] k = 3 -> 65536 [] k = 4 -> 16777216)) % 256]
    IN  IF endianness = LITTLE THEN lsb ELSE Reverse(lsb)

pack32(n, endianness) == pack(n, 4, endianness)

\* a name in a 16-byte field, NUL padded
name16(bytes) == bytes \o Zeros(16 - Len(bytes))

TEXT == <<95, 95, 84, 69, 88, 84>>
text == <<95, 95, 116, 101, 120, 116>>

\* the magic of a thin image as it lies on disk
disk_magic(endianness, is64) ==
    LET m == IF is64 THEN MAGIC_64_LE ELSE MAGIC_32_LE IN
    IF endianness = LITTLE THEN Reverse(m) ELSE m

thin_header(endianness, is64, ncmds, sizeofcmds) ==
    disk_magic(endianness, is64)
    \o pack32(7, endianness) \o pack32(3, endianness) \o pack32(2, endianness)
    \o pack32(ncmds, endianness) \o pack32(sizeofcmds, endianness)
    \o pack32(133, endianness)
    \o (IF is64 THEN pack32(9, endianness) ELSE << >>)

section_record(endianness, is64) ==
    LET w == IF is64 THEN 8 ELSE 4 IN
    name16(text) \o name16(TEXT)
    \o pack(4096, w, endianness) \o pack(12288, w, endianness)
    \o pack32(4096, endianness) \o pack32(4, endianness) \o pack32(0, endianness)
    \o pack32(0, endianness) \o pack32(1024, endianness)
    \o Zeros(IF is64 THEN 12 ELSE 8)

\* the bytes of a segment command with nsects section records
segment_command(endianness, is64, nsects) ==
    LET w    == IF is64 THEN 8 ELSE 4
        size == section_offset(is64) + nsects * (IF is64 THEN 80 ELSE 68)
    IN  pack32(IF is64 THEN LC_SEGMENT_64 ELSE LC_SEGMENT, endianness)
        \o pack32(size, endianness) \o name16(TEXT)
        \o pack(4096, w, endianness) \o pack(16384, w, endianness)
        \o pack(0, w, endianness) \o pack(16384, w, endianness)
        \o pack32(7, endianness) \o pack32(5, endianness)
        \o pack32(nsects, endianness) \o pack32(0, endianness)
        \o Flatten([k \in 1..nsects |-> section_record(endianness, is64)])

DATA == <<95, 95, 68, 65, 84, 65>>
data == <<95, 95, 100, 97, 116, 97>>

\* a section record with the given names and address, its last reserved bytes kept
section_with(endianness, is64, sectname, segname, addr, reserved) ==
    LET w == IF is64 THEN 8 ELSE 4 IN
    name16(sectname) \o name16(segname)
    \o pack(addr, w, endianness) \o pack(256, w, endianness)
    \o pack32(addr, endianness) \o pack32(4, endianness) \o pack32(0, endianness)
    \o pack32(0, endianness) \o pack32(1024, endianness)
    \o Zeros(reserved)

\* a segment command of the layout is64 with the given name and section records;
\* cmd_size is the length of the bytes
segment_with(endianness, is64, segname, nsects, records) ==
    LET w    == IF is64 THEN 8 ELSE 4
        body == name16(segname)
                \o pack(4096, w, endianness) \o pack(16384, w, endianness)
                \o pack(0, w, endianness) \o pack(16384, w, endianness)
                \o pack32(7, endianness) \o pack32(5, endianness)
                \o pack32(nsects, endianness) \o pack32(0, endianness)
                \o records
    IN  pack32(IF is64 THEN LC_SEGMENT_64 ELSE LC_SEGMENT, endianness)
        \o pack32(8 + Len(body), endianness) \o body

\* the kinds of segment command of the images that hold one segment
SegmentKinds ==
    {"segment2", "segment1r", "segment32", "segment64", "segname_nul", "segname_bad"}

\* the kinds of load command of the images: the declared size and the bytes
CmdKinds == {"symtab8", "symtab12", "size4", "size16", "segment", "segment1", "segment8"}

command_bytes(kind, endianness, is64) ==
    CASE kind = "symtab8"  -> pack32(2, endianness) \o pack32(8, endianness)
      [] kind = "symtab12" -> pack32(2, endianness) \o pack32(12, endianness) \o <<1, 2, 3, 4>>
      [] kind = "size4"    -> pack32(2, endianness) \o pack32(4, endianness)
      [] kind = "size16"   -> pack32(2, endianness) \o pack32(16, endianness) \o <<5, 6, 7, 8>>
      [] kind = "segment"  -> segment_command(endianness, is64, 0)
      [] kind = "segment1" -> segment_command(endianness, is64, 1)
      [] kind = "segment8" -> pack32(LC_SEGMENT, endianness) \o pack32(8, endianness)
      [] kind = "segment2" ->
            segment_with(endianness, is64, TEXT, 2,
                section_with(endianness, is64, text, TEXT, 4096, IF is64 THEN 12 ELSE 8)
                \o section_with(endianness, is64, data, DATA, 8192, IF is64 THEN 12 ELSE 8))
      [] kind = "segment1r" ->
            segment_with(endianness, is64, TEXT, 1,
                section_with(endianness, is64, text, TEXT, 4096, 0))
      [] kind = "segment32" -> segment_with(endianness, FALSE, TEXT, 0, << >>)
      [] kind = "segment64" -> segment_with(endianness, TRUE, TEXT, 0, << >>)
      [] kind = "segname_nul" -> segment_with(endianness, is64, <<65, 0, 66>>, 0, << >>)
      [] kind = "segname_bad" -> segment_with(endianness, is64, <<65, 255>>, 0, << >>)

\* the cmd_size a command of the kind declares
declared_size(kind, is64) ==
    CASE kind = "symtab8"  -> 8
      [] kind = "symtab12" -> 12
      [] kind = "size4"    -> 4
      [] kind = "size16"   -> 16
      [] kind = "segment"  -> section_offset(is64)
      [] kind = "segment1" -> section_offset(is64) + (IF is64 THEN 80 ELSE 68)
      [] kind = "segment8" -> 8
      [] OTHER -> Len(command_bytes(kind, LITTLE, is64))

RECURSIVE SumSeq(_)
SumSeq(ns) == IF ns = << >> THEN 0 ELSE Head(ns) + SumSeq(Tail(ns))

\* a thin image: the header, the commands, the last cut bytes missing;
\* sizeofcmds is the sum of the declared sizes plus slack (never below 0)
thin_image(endianness, is64, kinds, slack, cut) ==
    LET cmds == Flatten([k \in 1..Len(kinds) |-> command_bytes(kinds[k], endianness, is64)])
        sum  == SumSeq([k \in 1..Len(kinds) |-> declared_size(kinds[k], is64)])
        soc  == IF sum + slack < 0 THEN 0 ELSE sum + slack
        img  == thin_header(endianness, is64, Len(kinds), soc) \o cmds
    IN  SubSeq(img, 1, Len(img) - cut)

ThinImages ==
    {thin_image(e, b, kinds, slack, cut) :
        e \in {LITTLE, BIG}, b \in BOOLEAN, kinds \in SeqsUpTo(CmdKinds, MaxCmds),
        slack \in {-8, 0, 8}, cut \in {0, 4}}

\* the slices a fat image may hold; the last is corrupt (no thin magic)
Slices ==
    {thin_image(LITTLE, TRUE, << >>, 0, 0),
     thin_image(BIG, FALSE, <<"symtab12">>, 0, 0),
     thin_image(LITTLE, FALSE, << >>, 0, 0),
     Zeros(32)}

\* offset of the first slice of a fat image: behind the largest descriptor table
first_slice == 8 + 32 * MaxArch

\* a fat image of two slices a and b; desc[k] = <<which slice, extra size>>
fat_image(is64, desc, a, b) ==
    LET w      == IF is64 THEN 8 ELSE 4
        off(k) == IF desc[k][1] = 1 THEN first_slice ELSE first_slice + Len(a)
        len(k) == (IF desc[k][1] = 1 THEN Len(a) ELSE Len(b)) + desc[k][2]
        arch(k) == pack32(IF k = 1 THEN 16777223 ELSE 12, BIG) \o pack32(3, BIG)
                   \o pack(off(k), w, BIG) \o pack(len(k), w, BIG) \o pack32(12, BIG)
                   \o (IF is64 THEN Zeros(4) ELSE << >>)
        table  == Flatten([k \in 1..Len(desc) |-> arch(k)])
    IN  (IF is64 THEN FAT_MAGIC_64 ELSE FAT_MAGIC) \o pack32(Len(desc), BIG) \o table
        \o Zeros(first_slice - 8 - Len(table)) \o a \o b

FatImages ==
    {fat_image(f, desc, a, b) :
        f \in BOOLEAN, desc \in SeqsUpTo({1, 2} \X {0, 4096}, MaxArch),
        a \in Slices, b \in Slices}
    \cup {SubSeq(FAT_MAGIC, 1, 4) \o <<0, 0>>}

\* the bytes the six magics are made of, and 0
MagicBytes == {0, 186, 190, 191, 202, 206, 207, 237, 250, 254}

\* every four bytes over MagicBytes, followed by 28 zero bytes
MagicProbes == {<<a, b, c, d>> \o Zeros(28) : a, b, c, d \in MagicBytes}

\* thin images of one segment command
SegmentImages ==
    {thin_image(e, b, <<kind>>, 0, 0) : e \in {LITTLE, BIG}, b \in BOOLEAN, kind \in SegmentKinds}

Images == ThinImages \cup FatImages \cup MagicProbes \cup SegmentImages

(***************************************************************************)
(* The store: db.session and the committed tables.  A record gets the next *)
(* id of its table; filename, filepath and md5_hash of a MachoFile depend  *)
(* on the path alone and are left out.                                     *)
(***************************************************************************)
EmptyTables ==
    [files |-> << >>, headers |-> << >>, load_commands |-> << >>,
     segments |-> << >>, sections |-> << >>]

\* the id the next record added to table t gets
next_id(store, pending, t) == Len(store[t]) + Len(pending[t]) + 1

commit_distinct(store, pending) ==
    [t \in DOMAIN store |->
        LET unseen(r) == \A k \in 1..Len(store[t]) :
                             [store[t][k] EXCEPT !.id = 0] # [r EXCEPT !.id = 0] IN
        store[t] \o SelectSeq(pending[t], unseen)]

\* db.session.commit(): every pending record becomes a committed one
commit(store, pending) ==
    [t \in DOMAIN store |-> store[t] \o pending[t]]

\* a path is the list of its components; the path parse_file is called with
parsed_path == <<"a", "x">>

\* os.path.basename, Path.name
basename(path) == path[Len(path)]

\* the sum of the bytes lo..hi of content
RECURSIVE byte_sum(_, _, _)
byte_sum(content, lo, hi) ==
    IF lo > hi THEN 0
    ELSE IF lo = hi THEN content[lo]
    ELSE LET mid == (lo + hi) \div 2 IN
         byte_sum(content, lo, mid) + byte_sum(content, mid + 1, hi)

\* the MD5 digest stands for a function of the content alone: its length and byte sum
hexdigest(content) == <<Len(content), byte_sum(content, 1, Len(content)) % 256>>

\* MachoFile(...) of parse_file
MachoFile(id, file_size, is_fat) ==
    [id |-> id, filename |-> basename(parsed_path), filepath |-> parsed_path,
     file_size |-> file_size, md5_hash |-> hexdigest(src), is_fat_binary |-> is_fat]

\* Header(...) of the thin branch of parse_file
Header(id, file_id, hd) ==
    [id |-> id, file_id |-> file_id, magic_number |-> hd.magic, cpu_type |-> hd.cpu_type,
     cpu_subtype |-> hd.cpu_subtype, file_type |-> hd.file_type, ncmds |-> hd.ncmds,
     sizeofcmds |-> hd.sizeofcmds, flags |-> hd.flags, reserved |-> hd.reserved,
     arch_offset |-> << >>, arch_size |-> << >>]

\* Header.is_64_bit and Header.is_little_endian (models/header.py)
Header_is_64_bit(h) == h.magic_number \in {MAGIC_64_LE, MAGIC_64_BE}

Header_is_little_endian(h) == h.magic_number \in {MAGIC_32_BE, MAGIC_64_BE}

\* the Header of a slice with offset and size exchanged
SliceHeader_swapped(id, file_id, hd, arch) ==
    [Header(id, file_id, hd) EXCEPT !.arch_offset = <<arch.size>>,
                                    !.arch_size = <<arch.offset>>]

\* Header(...) of the fat branch of parse_file
SliceHeader(id, file_id, hd, arch) ==
    [Header(id, file_id, hd) EXCEPT !.arch_offset = <<arch.offset>>,
                                    !.arch_size = <<arch.size>>]

\* the LoadCommand records of the list cmds, ids from first on
LoadCommands(first, hid, cmds) ==
    [k \in 1..Len(cmds) |->
        [id |-> first + k - 1, header_id |-> hid, cmd_type |-> cmds[k].cmd_type,
         cmd_size |-> cmds[k].cmd_size, cmd_offset |-> cmds[k].cmd_offset,
         cmd_data |-> cmds[k].cmd_data]]

\* the Segment records of the list segments, ids from first on
Segments(first, file_id, segments) ==
    [k \in 1..Len(segments) |->
        [id |-> first + k - 1, file_id |-> file_id, segname |-> segments[k].segname,
         vmaddr |-> segments[k].vmaddr, vmsize |-> segments[k].vmsize,
         fileoff |-> segments[k].fileoff, filesize |-> segments[k].filesize,
         maxprot |-> segments[k].maxprot, initprot |-> segments[k].initprot,
         nsects |-> segments[k].nsects, flags |-> segments[k].flags]]

\* the Section records of the segments, ids from first on, in segment order
RECURSIVE Sections(_, _, _)
Sections(first, seg_first, segments) ==
    IF segments = << >> THEN << >>
    ELSE LET secs == Head(segments).sections IN
         [k \in 1..Len(secs) |->
            [id |-> first + k - 1, segment_id |-> seg_first, sectname |-> secs[k].sectname,
             segname |-> secs[k].segname, addr |-> secs[k].addr, size |-> secs[k].size,
             offset |-> secs[k].offset, align |-> secs[k].align, flags |-> secs[k].flags]]
         \o Sections(first + Len(secs), seg_first + 1, Tail(segments))

\* the position taken before the descriptor is read instead of after it
tell_before_descriptor(before, after) == before

\* original_pos = f.tell(), taken when parse_fat_arch has read the descriptor
tell_after_descriptor(before, after) == after

(***************************************************************************)
(* parse_file                                                              *)
(***************************************************************************)
NoSymtab == [symoff |-> 0, nsyms |-> 0, stroff |-> 0, strsize |-> 0]
NoFatHeader == [magic |-> << >>, nfat_arch |-> 0, is_64_bit |-> FALSE]
\* no call of extract_file_metadata has been made
NoResult == [ok |-> FALSE, err |-> "", id |-> 0]

NoFatArch == [cputype |-> 0, cpusubtype |-> 0, offset |-> 0, size |-> 0, align |-> 0]

Init ==
    /\ src \in Images
    /\ pos = 0
    /\ pc = "open"
    /\ err = ""
    /\ fat_header = NoFatHeader
    /\ fat_arch = NoFatArch
    /\ arch_i = 0
    /\ original_pos = 0
    /\ header_data = NoHeader
    /\ load_commands = << >>
    /\ cmd_i = 0
    /\ macho_file = 0
    /\ header_id = 0
    /\ session = EmptyTables
    /\ db_store = EmptyTables
    /\ symtab_cmd = NoSymtab
    /\ sym_magic = << >>
    /\ string_table = << >>
    /\ symbols = << >>
    /\ sym_i = 0
    /\ xref_file_id = 0
    /\ xref_count = 0
    /\ xref_i = 0
    /\ returned = << >>
    /\ filepath = << >>
    /\ calls = 0
    /\ result = NoResult

\* the exception leaves parse_file; what was committed stays committed
Fail(kind, p) ==
    /\ pc' = "failed"
    /\ err' = kind
    /\ pos' = p

\* with open(filepath, 'rb') as f: if MachoParser.is_fat_binary(f)
Open ==
    /\ pc = "open"
    /\ pc' = IF is_fat_binary(src, pos) THEN "fat_header" ELSE "thin_header"
    /\ UNCHANGED <<src, pos, err, fat_header, fat_arch, arch_i, original_pos, header_data,
                   load_commands, cmd_i, macho_file, header_id, session, db_store>>
    /\ UNCHANGED symvars
    /\ UNCHANGED xrefvars
    /\ UNCHANGED metavars

\* fat branch: parse_fat_header, then the MachoFile record is added and committed
FatHeader ==
    /\ pc = "fat_header"
    /\ LET r == parse_fat_header(src, pos) IN
       IF ~r.ok
       THEN /\ Fail(r.err, r.pos)
            /\ UNCHANGED <<fat_header, macho_file, db_store>>
       ELSE /\ fat_header' = r.fat_header
            /\ pos' = r.pos
            /\ macho_file' = next_id(db_store, session, "files")
            /\ db_store' = commit(db_store,
                 [session EXCEPT !.files = Append(@, MachoFile(macho_file', Len(src), TRUE))])
            /\ pc' = "fat_arch"
            /\ err' = err
    /\ session' = session
    /\ arch_i' = 0
    /\ UNCHANGED <<src, fat_arch, original_pos, header_data, load_commands, cmd_i, header_id>>
    /\ UNCHANGED symvars
    /\ UNCHANGED xrefvars
    /\ UNCHANGED metavars

\* for i in range(fat_header.nfat_arch): parse_fat_arch, save the position, seek
FatArch ==
    /\ pc = "fat_arch"
    /\ arch_i < fat_header.nfat_arch
    /\ LET r == parse_fat_arch(src, pos, fat_header.is_64_bit) IN
       IF ~r.ok
       THEN /\ Fail(r.err, r.pos)
            /\ UNCHANGED <<fat_arch, original_pos>>
       ELSE /\ fat_arch' = r.fat_arch
            /\ original_pos' = tell_after_descriptor(pos, r.pos)
            /\ pos' = r.fat_arch.offset
            /\ pc' = "slice_header"
            /\ err' = err
    /\ UNCHANGED <<src, fat_header, arch_i, header_data, load_commands, cmd_i, macho_file,
                   header_id, session, db_store>>
    /\ UNCHANGED symvars
    /\ UNCHANGED xrefvars
    /\ UNCHANGED metavars

\* the loop over the slices is exhausted: return macho_file
FatReturn ==
    /\ pc = "fat_arch"
    /\ arch_i = fat_header.nfat_arch
    /\ pc' = "done"
    /\ UNCHANGED <<src, pos, err, fat_header, fat_arch, arch_i, original_pos, header_data,
                   load_commands, cmd_i, macho_file, header_id, session, db_store>>
    /\ UNCHANGED symvars
    /\ UNCHANGED xrefvars
    /\ UNCHANGED metavars

\* fat branch: parse_header at the slice, then the Header record is added and committed
FatSliceHeader ==
    /\ pc = "slice_header"
    /\ LET r == parse_header(src, pos) IN
       IF ~r.ok
       THEN /\ Fail(r.err, r.pos)
            /\ UNCHANGED <<header_data, header_id, db_store>>
       ELSE /\ header_data' = r.header
            /\ pos' = r.pos
            /\ header_id' = next_id(db_store, session, "headers")
            /\ db_store' = commit(db_store,
                 [session EXCEPT !.headers =
                    Append(@, SliceHeader(header_id', macho_file, r.header, fat_arch))])
            /\ pc' = "load_commands"
            /\ err' = err
    /\ UNCHANGED <<src, fat_header, fat_arch, arch_i, original_pos, load_commands, cmd_i,
                   macho_file, session>>
    /\ UNCHANGED symvars
    /\ UNCHANGED xrefvars
    /\ UNCHANGED metavars

\* thin branch: parse_header, then the MachoFile and Header records are added and committed
ThinHeader ==
    /\ pc = "thin_header"
    /\ LET r == parse_header(src, pos) IN
       IF ~r.ok
       THEN /\ Fail(r.err, r.pos)
            /\ UNCHANGED <<header_data, macho_file, header_id, db_store>>
       ELSE /\ header_data' = r.header
            /\ pos' = r.pos
            /\ macho_file' = next_id(db_store, session, "files")
            /\ header_id' = next_id(db_store, session, "headers")
            /\ db_store' = commit(db_store,
                 [session EXCEPT
                    !.files = Append(@, MachoFile(macho_file', Len(src), FALSE)),
                    !.headers = Append(@, Header(header_id', macho_file', r.header))])
            /\ pc' = "load_commands"
            /\ err' = err
    /\ UNCHANGED <<src, fat_header, fat_arch, arch_i, original_pos, load_commands, cmd_i,
                   session>>
    /\ UNCHANGED symvars
    /\ UNCHANGED xrefvars
    /\ UNCHANGED metavars

\* parse_load_commands: file.seek(start_offset)
WalkStart ==
    /\ pc = "load_commands"
    /\ pos' = start_offset(header_data.is_64_bit)
    /\ load_commands' = << >>
    /\ cmd_i' = 0
    /\ pc' = "walk"
    /\ UNCHANGED <<src, err, fat_header, fat_arch, arch_i, original_pos, header_data,
                   macho_file, header_id, session, db_store>>
    /\ UNCHANGED symvars
    /\ UNCHANGED xrefvars
    /\ UNCHANGED metavars

\* parse_load_commands: one iteration of for i in range(header.ncmds)
WalkStep ==
    /\ pc = "walk"
    /\ cmd_i < header_data.ncmds
    /\ LET r == load_command_at(src, pos, header_data.endianness) IN
       IF ~r.ok
       THEN /\ Fail(r.err, r.pos)
            /\ UNCHANGED <<load_commands, cmd_i>>
       ELSE /\ load_commands' = Append(load_commands, r.cmd)
            /\ pos' = r.pos
            /\ cmd_i' = cmd_i + 1
            /\ pc' = pc
            /\ err' = err
    /\ UNCHANGED <<src, fat_header, fat_arch, arch_i, original_pos, header_data,
                   macho_file, header_id, session, db_store>>
    /\ UNCHANGED symvars
    /\ UNCHANGED xrefvars
    /\ UNCHANGED metavars

\* parse_load_commands returns; the LoadCommand records are added and committed
WalkReturn ==
    /\ pc = "walk"
    /\ cmd_i = header_data.ncmds
    /\ db_store' = commit(db_store,
         [session EXCEPT !.load_commands =
            @ \o LoadCommands(next_id(db_store, session, "load_commands"), header_id,
                              load_commands)])
    /\ pc' = "segments"
    /\ UNCHANGED <<src, pos, err, fat_header, fat_arch, arch_i, original_pos, header_data,
                   load_commands, cmd_i, macho_file, header_id, session>>
    /\ UNCHANGED symvars
    /\ UNCHANGED xrefvars
    /\ UNCHANGED metavars

\* parse_segments_and_sections, then the Segment and Section records are added and
\* committed; the fat branch restores the position and goes on to the next slice
SegmentsAndSections ==
    /\ pc = "segments"
    /\ LET r == parse_segments_and_sections(header_data, load_commands) IN
       IF ~r.ok
       THEN /\ Fail(r.err, pos)
            /\ UNCHANGED <<arch_i, db_store>>
       ELSE /\ db_store' = commit(db_store,
                 [session EXCEPT
                    !.segments = @ \o Segments(next_id(db_store, session, "segments"),
                                               macho_file, r.segments),
                    !.sections = @ \o Sections(next_id(db_store, session, "sections"),
                                               next_id(db_store, session, "segments"),
                                               r.segments)])
            /\ err' = err
            /\ IF fat_header.magic # << >>
               THEN /\ pos' = original_pos
                    /\ arch_i' = arch_i + 1
                    /\ pc' = "fat_arch"
               ELSE /\ pos' = pos
                    /\ arch_i' = arch_i
                    /\ pc' = "done"
    /\ UNCHANGED <<src, fat_header, fat_arch, original_pos, header_data, load_commands,
                   cmd_i, macho_file, header_id, session>>
    /\ UNCHANGED symvars
    /\ UNCHANGED xrefvars
    /\ UNCHANGED metavars

Next ==
    \/ Open
    \/ FatHeader
    \/ FatArch
    \/ FatReturn
    \/ FatSliceHeader
    \/ ThinHeader
    \/ WalkStart
    \/ WalkStep
    \/ WalkReturn
    \/ SegmentsAndSections

Spec == Init /\ [][Next]_vars

(***************************************************************************)
(* Properties of parse_file and parse_load_commands                        *)
(***************************************************************************)
\* the unsigned value of the n bytes at file offset off, read big-endian
RECURSIVE BigEndianAt(_, _)
BigEndianAt(off, n) ==
    IF n = 0 THEN 0 ELSE BigEndianAt(off, n - 1) * 256 + src[off + n]

\* the unsigned value of the n bytes at file offset off, read little-endian
RECURSIVE LittleEndianAt(_, _)
LittleEndianAt(off, n) ==
    IF n = 0 THEN 0 ELSE src[off + 1] + 256 * LittleEndianAt(off + 1, n - 1)

WordAt(off, endianness) ==
    IF endianness = LITTLE THEN LittleEndianAt(off, 4) ELSE BigEndianAt(off, 4)

\* parse_load_commands has returned the list load_commands
WalkReturned == pc = "segments"

IsFat == fat_header.magic # << >>

\* the committed Header records of the file of this parse, in insertion order
HeadersOfFile == SelectSeq(db_store.headers, LAMBDA h : h.file_id = macho_file)

\* the committed LoadCommand records of header h, in insertion order
CommandsOf(h) == SelectSeq(db_store.load_commands, LAMBDA c : c.header_id = h.id)

\* C1: parse_load_commands returns exactly header.ncmds commands in file order; the
\* first has cmd_offset 28 (32-bit header) or 32 (64-bit header), every later one
\* starts at the previous cmd_offset + cmd_size, and cmd_type and cmd_size are the two
\* words at cmd_offset in the header's byte order.
C1_WalkChain ==
    WalkReturned =>
        /\ Len(load_commands) = header_data.ncmds
        /\ \A k \in 1..Len(load_commands) :
            LET c == load_commands[k] IN
            /\ c.cmd_offset =
                 IF k = 1 THEN (IF header_data.is_64_bit THEN 32 ELSE 28)
                 ELSE load_commands[k - 1].cmd_offset + load_commands[k - 1].cmd_size
            /\ c.cmd_type = WordAt(c.cmd_offset, header_data.endianness)
            /\ c.cmd_size = WordAt(c.cmd_offset + 4, header_data.endianness)

\* C1 witness: a walk over two commands of a 64-bit big-endian image has returned
C1_Witness ==
    /\ WalkReturned
    /\ ~IsFat
    /\ header_data.is_64_bit
    /\ header_data.endianness = BIG
    /\ Len(load_commands) = 2
    /\ load_commands[1].cmd_size = 12
    /\ load_commands[2].cmd_offset = 44

\* C2: the walk fails whenever a command has cmd_size < 8 or runs past the end of the
\* sizeofcmds bytes of the load-command area; so a walk that returned met no such command.
C2_WalkRejectsMalformed ==
    WalkReturned =>
        \A k \in 1..Len(load_commands) :
            LET c == load_commands[k] IN
            /\ c.cmd_size >= 8
            /\ c.cmd_offset + c.cmd_size
                 <= (IF header_data.is_64_bit THEN 32 ELSE 28) + header_data.sizeofcmds

\* C3: for every header decoded, the cmd_size values of its load commands sum to
\* sizeofcmds and their cmd_data, concatenated, are the sizeofcmds bytes of the
\* load-command area.
C3_SizesSumToSizeofcmds ==
    pc = "done" /\ ~IsFat =>
        \A i \in 1..Len(HeadersOfFile) :
            LET h    == HeadersOfFile[i]
                cmds == CommandsOf(h)
                base == IF h.magic_number = MAGIC_64_LE THEN 32 ELSE 28
            IN  /\ SumSeq([k \in 1..Len(cmds) |-> cmds[k].cmd_size]) = h.sizeofcmds
                /\ Flatten([k \in 1..Len(cmds) |-> cmds[k].cmd_data])
                     = Read(src, base, h.sizeofcmds)
                /\ base + h.sizeofcmds <= Len(src)

\* C4: every load command returned keeps cmd_data of exactly cmd_size bytes, the bytes
\* [cmd_offset, cmd_offset + cmd_size) of the source; a source that ends earlier makes
\* the walk fail.
C4_DataHasCmdSize ==
    WalkReturned =>
        \A k \in 1..Len(load_commands) :
            LET c == load_commands[k] IN
            /\ Len(c.cmd_data) = c.cmd_size
            /\ c.cmd_offset + c.cmd_size <= Len(src)
            /\ c.cmd_data = Read(src, c.cmd_offset, c.cmd_size)

DescriptorAt(i) == 8 + i * (IF src[4] = 191 THEN 32 ELSE 20)

DeclaredOffset(i) == BigEndianAt(DescriptorAt(i) + 8, IF src[4] = 191 THEN 8 ELSE 4)

DeclaredSize(i) ==
    IF src[4] = 191 THEN BigEndianAt(DescriptorAt(i) + 16, 8)
    ELSE BigEndianAt(DescriptorAt(i) + 12, 4)

\* the bytes at file offset off are a thin magic followed by a complete header
ThinHeaderAt(off) ==
    /\ off + 28 <= Len(src)
    /\ \/ SubSeq(src, off + 1, off + 4) \in {<<206, 250, 237, 254>>, <<254, 237, 250, 206>>}
       \/ /\ SubSeq(src, off + 1, off + 4) \in {<<207, 250, 237, 254>>, <<254, 237, 250, 207>>}
          /\ off + 32 <= Len(src)

\* C6: when parse_file of a fat binary has ended, every slice that is valid has a
\* Header record, also when another slice is corrupt.
C6_ValidSlicesGetHeaders ==
    pc \in {"done", "failed"} /\ IsFat /\ macho_file # 0 =>
        \A i \in 0..(fat_header.nfat_arch - 1) :
            ThinHeaderAt(DeclaredOffset(i)) =>
                \E k \in 1..Len(HeadersOfFile) :
                    HeadersOfFile[k].arch_offset = <<DeclaredOffset(i)>>

\* C7: when parse_file raises, the store is as it was before the call.
C7_FailureLeavesStoreUnchanged ==
    pc = "failed" => db_store = EmptyTables

FormatOf(m) ==
    CASE m = <<202, 254, 186, 190>> -> "FAT32"
      [] m = <<202, 254, 186, 191>> -> "FAT64"
      [] m = <<206, 250, 237, 254>> -> "THIN32_LE"
      [] m = <<207, 250, 237, 254>> -> "THIN64_LE"
      [] m = <<254, 237, 250, 206>> -> "THIN32_BE"
      [] m = <<254, 237, 250, 207>> -> "THIN64_BE"
      [] OTHER -> "UNKNOWN"

Format == IF Len(src) >= 4 THEN FormatOf(SubSeq(src, 1, 4)) ELSE "UNKNOWN"

\* parse_header has been called on the first bytes of the source and has returned
RootHeaderParsed == ~IsFat /\ pc \notin {"open", "thin_header", "fat_header", "failed"}

\* C10: the first four bytes decide the format: CA FE BA BE and CA FE BA BF are fat
\* (fat64 the second only); CE FA ED FE, CF FA ED FE, FE ED FA CE, FE ED FA CF are thin
\* 32/64-bit little-endian and 32/64-bit big-endian; for any other four bytes
\* is_fat_binary is false and parse_header returns no header.
C10_MagicDecidesFormat ==
    /\ pc = "fat_header" => Format \in {"FAT32", "FAT64"}
    /\ pc = "thin_header" => Format \notin {"FAT32", "FAT64"}
    /\ IsFat => fat_header.is_64_bit = (Format = "FAT64")
    /\ RootHeaderParsed =>
        /\ Format \in {"THIN32_LE", "THIN64_LE", "THIN32_BE", "THIN64_BE"}
        /\ header_data.is_64_bit = (Format \in {"THIN64_LE", "THIN64_BE"})
        /\ header_data.endianness = IF Format \in {"THIN32_LE", "THIN64_LE"} THEN LITTLE ELSE BIG
    /\ pc = "failed" /\ macho_file = 0 /\ Len(src) >= 32 => Format = "UNKNOWN"

\* C10 witness: parse_header has returned a 64-bit big-endian header for a source
\* that starts FE ED FA CF
C10_Witness ==
    /\ RootHeaderParsed
    /\ SubSeq(src, 1, 4) = <<254, 237, 250, 207>>
    /\ header_data.is_64_bit
    /\ header_data.endianness = BIG

(***************************************************************************)
(* Properties of parse_header                                              *)
(***************************************************************************)
\* the reader position parse_header of the current slice was started at
HeaderStart == IF IsFat THEN fat_arch.offset ELSE 0

\* the bytes of the magic at the start of the current slice
MagicAt(off) == IF off + 4 <= Len(src) THEN SubSeq(src, off + 1, off + 4) ELSE << >>

\* byte order and word size the bytes of a thin magic stand for
DiskEndianness(m) == IF FormatOf(m) \in {"THIN32_LE", "THIN64_LE"} THEN LITTLE ELSE BIG

Disk64(m) == FormatOf(m) \in {"THIN64_LE", "THIN64_BE"}

\* parse_header has just returned: the Header record is committed, the walk not begun
HeaderReturned == pc = "load_commands"

\* C11: parse_header started at p on a thin magic and a complete header returns
\* cputype, cpusubtype, filetype, ncmds, sizeofcmds and flags as the words at
\* p+4 .. p+28 in the detected byte order, reserved as the word at p+28 for a 64-bit
\* magic and None for a 32-bit one, and leaves the reader at p+28 or p+32; it fails
\* on the first header of a file only when no thin magic and complete header is there.
C11_HeaderFields ==
    /\ HeaderReturned =>
        LET p == HeaderStart
            m == MagicAt(p)
            e == DiskEndianness(m)
        IN  /\ ThinHeaderAt(p)
            /\ header_data.cpu_type = WordAt(p + 4, e)
            /\ header_data.cpu_subtype = WordAt(p + 8, e)
            /\ header_data.file_type = WordAt(p + 12, e)
            /\ header_data.ncmds = WordAt(p + 16, e)
            /\ header_data.sizeofcmds = WordAt(p + 20, e)
            /\ header_data.flags = WordAt(p + 24, e)
            /\ header_data.reserved = IF Disk64(m) THEN <<WordAt(p + 28, e)>> ELSE << >>
            /\ pos = p + (IF Disk64(m) THEN 32 ELSE 28)
    /\ pc = "failed" /\ macho_file = 0 => ~ThinHeaderAt(0)

\* C11 witness: parse_header has returned the header of a 64-bit little-endian slice
\* that lies behind the start of a fat file, reserved word 9 included
C11_Witness ==
    /\ HeaderReturned
    /\ HeaderStart > 0
    /\ MagicAt(HeaderStart) = <<207, 250, 237, 254>>
    /\ header_data.reserved = <<9>>
    /\ header_data.flags = 133

(***************************************************************************)
(* Properties of the segment / section decoder                             *)
(***************************************************************************)
\* parse_file of a thin file has returned
ThinParsed == pc = "done" /\ ~IsFat

\* the load commands of type LC_SEGMENT (0x1) or LC_SEGMENT_64 (0x19), in file order
SegmentCommands == SelectSeq(load_commands, LAMBDA c : c.cmd_type \in {1, 25})

\* the Section records attached to a Segment record, in the order they were added
SectionsOf(seg) == SelectSeq(db_store.sections, LAMBDA x : x.segment_id = seg.id)

\* the unsigned value of the w bytes at file offset off in the byte order e
UintAt(off, w, e) == IF e = LITTLE THEN LittleEndianAt(off, w) ELSE BigEndianAt(off, w)

\* size of a section record and offset of the first one in the layout of a word size
RecordSize(is64) == IF is64 THEN 80 ELSE 68

FirstRecord(is64) == IF is64 THEN 72 ELSE 56

\* C13: every segment returned has exactly nsects sections attached (none when
\* nsects = 0), in the order their records lie in the command; one segment is
\* returned for each segment command.
C13_SectionsMatchNsects ==
    ThinParsed =>
        /\ Len(db_store.segments) = Len(SegmentCommands)
        /\ \A k \in 1..Len(db_store.segments) :
            LET seg  == db_store.segments[k]
                secs == SectionsOf(seg)
                is64 == header_data.is_64_bit
                base == SegmentCommands[k].cmd_offset + FirstRecord(is64)
            IN  /\ Len(secs) = seg.nsects
                /\ \A j \in 1..Len(secs) :
                    secs[j].addr = UintAt(base + (j - 1) * RecordSize(is64) + 32,
                                          IF is64 THEN 8 ELSE 4, header_data.endianness)

\* C13 witness: a segment with nsects = 2 is returned with its two sections, the one
\* at address 4096 before the one at address 8192
C13_Witness ==
    /\ ThinParsed
    /\ Len(db_store.segments) = 1
    /\ db_store.segments[1].nsects = 2
    /\ Len(db_store.sections) = 2
    /\ db_store.sections[1].addr = 4096
    /\ db_store.sections[2].addr = 8192

\* C14: every section's segname equals the segname of the segment it is attached
\* to, whatever the segname field of the section record holds.
C14_SectionSegnameIsSegments ==
    ThinParsed =>
        \A k \in 1..Len(db_store.segments) :
            \A j \in 1..Len(SectionsOf(db_store.segments[k])) :
                SectionsOf(db_store.segments[k])[j].segname = db_store.segments[k].segname

\* C15: a segment command whose nsects section records need more bytes than its
\* cmd_size provides is never returned as a segment, also when only the reserved
\* words of the last record are missing.
C15_SectionsFitCmdSize ==
    ThinParsed =>
        \A k \in 1..Len(db_store.segments) :
            FirstRecord(header_data.is_64_bit)
                + RecordSize(header_data.is_64_bit) * db_store.segments[k].nsects
            <= SegmentCommands[k].cmd_size

\* the word size of the layout a segment command's type names
CommandLayout64(cmd) == cmd.cmd_type = 25

\* C16: a segment command is decoded in the layout of its command type, LC_SEGMENT
\* with 4-byte and LC_SEGMENT_64 with 8-byte vmaddr/vmsize/fileoff/filesize, whatever
\* the word size of the enclosing header.
C16_LayoutByCommandType ==
    ThinParsed =>
        \A k \in 1..Len(db_store.segments) :
            LET seg == db_store.segments[k]
                cmd == SegmentCommands[k]
                w   == IF CommandLayout64(cmd) THEN 8 ELSE 4
                e   == header_data.endianness
            IN  /\ cmd.cmd_offset + 24 + 4 * w + 16 <= Len(src)
                /\ seg.vmaddr = UintAt(cmd.cmd_offset + 24, w, e)
                /\ seg.vmsize = UintAt(cmd.cmd_offset + 24 + w, w, e)
                /\ seg.fileoff = UintAt(cmd.cmd_offset + 24 + 2 * w, w, e)
                /\ seg.filesize = UintAt(cmd.cmd_offset + 24 + 3 * w, w, e)
                /\ seg.nsects = UintAt(cmd.cmd_offset + 24 + 4 * w + 8, 4, e)

\* the bytes of a name field up to its first NUL
RECURSIVE PrefixToNul(_)
PrefixToNul(bytes) ==
    IF bytes = << >> \/ Head(bytes) = 0 THEN << >>
    ELSE <<Head(bytes)>> \o PrefixToNul(Tail(bytes))

\* C17: a decoded name is the prefix of its 16-byte field up to the first NUL,
\* decoded as UTF-8 with replacement; no content of the field makes the decode fail.
C17_NameIsPrefixToNul ==
    /\ err # "UnicodeDecodeError"
    /\ ThinParsed =>
        \A k \in 1..Len(db_store.segments) :
            db_store.segments[k].segname =
                decode_utf8_replace(
                    PrefixToNul(SubSeq(src, SegmentCommands[k].cmd_offset + 9,
                                       SegmentCommands[k].cmd_offset + 24)))

(***************************************************************************)
(* parser_service.py: the symbol-table decoder, parse_symbol_table         *)
(***************************************************************************)
N_STAB == 224
N_TYPE == 14
N_EXT == 1
N_ABS == 2
N_SECT == 14

\* a & b of two non-negative integers
RECURSIVE BitAnd(_, _)
BitAnd(a, b) ==
    IF a = 0 \/ b = 0 THEN 0
    ELSE (a % 2) * (b % 2) + 2 * BitAnd(a \div 2, b \div 2)

\* struct.unpack('<h', bytes): the two bytes as a signed little-endian integer
unpack_int16_little(bytes) ==
    IF bytes[1] + 256 * bytes[2] >= 32768 THEN bytes[1] + 256 * bytes[2] - 65536
    ELSE bytes[1] + 256 * bytes[2]

\* n_desc of parse_symbol_table: format '<h' for either byte order
n_desc_of(bytes, endianness) == unpack_int16_little(bytes)

\* int.from_bytes(file.read(1), byteorder='little'): 0 for the empty read
from_byte(bytes) == IF bytes = << >> THEN 0 ELSE bytes[1]

\* n_value read with read_uint32 in either branch
n_value_width_32(is64) == 4

\* bytes of n_value: read_uint64 for a 64-bit magic, read_uint32 otherwise
n_value_width(is64) == IF is64 THEN 8 ELSE 4

\* one nlist entry read at position p: [ok, err, pos, nlist].  The reads follow one
\* another; struct.unpack fails on the first short one, which is there exactly when
\* fewer than 8 + w bytes are left, and the file is then at its end.
nlist_at(s, p, endianness, is64) ==
    LET w == n_value_width(is64) IN
    IF Len(s) < p + 8 + w
    THEN Raise("struct.error", IF p >= Len(s) THEN p ELSE Len(s))
    ELSE [ok |-> TRUE, err |-> "", pos |-> p + 8 + w,
          nlist |->
            [n_strx  |-> uint_at(s, p, 4, endianness),
             n_type  |-> from_byte(Read(s, p + 4, 1)),
             n_sect  |-> from_byte(Read(s, p + 5, 1)),
             n_desc  |-> n_desc_of(Read(s, p + 6, 2), endianness),
             n_value |-> uint_at(s, p + 8, w, endianness)]]

\* str(n) as code points
RECURSIVE decimal(_)
decimal(n) == IF n < 10 THEN <<48 + n>> ELSE decimal(n \div 10) \o <<48 + (n % 10)>>

\* "INVALID_STRING_OFFSET_"
INVALID_STRING_OFFSET ==
    <<73, 78, 86, 65, 76, 73, 68, 95, 83, 84, 82, 73, 78, 71, 95,
      79, 70, 70, 83, 69, 84, 95>>

\* string_table.find(b'\0', start): the offset of the first NUL at or behind start, -1
\* when there is none
RECURSIVE find_nul(_, _)
find_nul(table, start) ==
    IF start >= Len(table) THEN -1
    ELSE IF table[start + 1] = 0 THEN start
    ELSE find_nul(table, start + 1)

\* the name of a symbol with n_strx at the end of the table taken for one inside it
symbol_name_past_end(table, n_strx) ==
    IF n_strx > Len(table) THEN INVALID_STRING_OFFSET \o decimal(n_strx)
    ELSE IF find_nul(table, n_strx) < 0
    THEN decode_utf8_replace(SubSeq(table, n_strx + 1, Len(table)))
    ELSE decode_utf8_replace(SubSeq(table, n_strx + 1, find_nul(table, n_strx)))

\* the name of a symbol: the bytes of the string table from n_strx up to the next NUL
\* or to the end of the table, decoded with replacement; the sentinel when n_strx is
\* not inside the table
symbol_name(table, n_strx) ==
    IF n_strx >= Len(table) THEN INVALID_STRING_OFFSET \o decimal(n_strx)
    ELSE IF find_nul(table, n_strx) < 0
    THEN decode_utf8_replace(SubSeq(table, n_strx + 1, Len(table)))
    ELSE decode_utf8_replace(SubSeq(table, n_strx + 1, find_nul(table, n_strx)))

\* is_debug tested on the lowest bit of N_STAB alone
symbol_is_debug_low_bit(n_type) == BitAnd(n_type, 32) # 0

\* is_debug = bool(n_type & N_STAB)
symbol_is_debug(n_type) == BitAnd(n_type, N_STAB) # 0

\* is_local without the test of is_debug
symbol_is_local_not_external(n_type) == BitAnd(n_type, N_EXT) = 0

\* is_local = not is_external and not is_debug
symbol_is_local(n_type) == BitAnd(n_type, N_EXT) = 0 /\ ~symbol_is_debug(n_type)

\* ParsedSymbol(...) of one nlist entry
ParsedSymbol(nlist, table) ==
    [name        |-> symbol_name(table, nlist.n_strx),
     type        |-> nlist.n_type,
     sect        |-> nlist.n_sect,
     desc        |-> nlist.n_desc,
     value       |-> nlist.n_value,
     is_external |-> BitAnd(nlist.n_type, N_EXT) # 0,
     is_debug    |-> symbol_is_debug(nlist.n_type),
     is_local    |-> symbol_is_local(nlist.n_type),
     is_defined  |-> \/ BitAnd(nlist.n_type, N_TYPE) = N_SECT
                     \/ BitAnd(nlist.n_type, N_TYPE) = N_ABS]

\* symbols.append(symbol): the result of the rest of the loop behind one symbol
append_symbol(symbol, rest) ==
    IF ~rest.ok THEN rest
    ELSE [ok |-> TRUE, err |-> "", symbols |-> <<symbol>> \o rest.symbols]

\* the loop of parse_symbol_table with n entries left to read: [ok, err, symbols]
RECURSIVE symbols_from(_, _, _, _, _, _)
RECURSIVE symbols_after(_, _, _, _, _, _)
symbols_after(s, one, n, table, endianness, is64) ==
    IF ~one.ok THEN [ok |-> FALSE, err |-> one.err, symbols |-> << >>]
    ELSE append_symbol(ParsedSymbol(one.nlist, table),
                       symbols_from(s, one.pos, n - 1, table, endianness, is64))

symbols_from(s, p, n, table, endianness, is64) ==
    IF n = 0 THEN [ok |-> TRUE, err |-> "", symbols |-> << >>]
    ELSE symbols_after(s, nlist_at(s, p, endianness, is64), n, table, endianness, is64)

\* parse_symbol_table(file, symtab_cmd, magic): [ok, err, symbols]
parse_symbol_table(s, cmd, magic) ==
    IF detect_endianness(magic) = "ValueError"
    THEN [ok |-> FALSE, err |-> "ValueError", symbols |-> << >>]
    ELSE symbols_from(s, cmd.symoff, cmd.nsyms, Read(s, cmd.stroff, cmd.strsize),
                      detect_endianness(magic), is_64_bit(magic))

(***************************************************************************)
(* The inputs of parse_symbol_table: a file that holds nlist entries and a *)
(* string table, the symtab command that points at them and the magic of   *)
(* the header.                                                             *)
(***************************************************************************)
MaxSyms == 2

\* NUL, "_a", NUL, an invalid UTF-8 byte, NUL, "_b" with no NUL behind it
StringTable == <<0, 95, 97, 0, 255, 0, 95, 98>>

\* nlist entries <<n_strx, n_type, n_sect, n_desc as 16 bits, n_value>>: names inside
\* the table, at its end (8) and beyond it (200)
SymEntries ==
    {<<1, 15, 1, 1, 4096>>, <<6, 14, 1, 0, 8192>>, <<200, 1, 0, 256, 0>>,
     <<4, 46, 1, 65535, 12288>>, <<8, 0, 0, 0, 0>>}

\* an entry of each of the 256 values of n_type
TypeEntries == {<<1, t, 1, 0, 4096>> : t \in 0..255}

\* the bytes of an nlist / nlist_64 entry
nlist_bytes(entry, endianness, is64) ==
    pack32(entry[1], endianness) \o <<entry[2], entry[3]>>
    \o pack(entry[4], 2, endianness)
    \o pack(entry[5], IF is64 THEN 8 ELSE 4, endianness)

symbol_size(is64) == IF is64 THEN 16 ELSE 12

\* offset of the symbol table in the files
SymOff == 8

\* a file: SymOff bytes, the entries, the string table
symtab_image(endianness, is64, entries) ==
    Zeros(SymOff)
    \o Flatten([k \in 1..Len(entries) |-> nlist_bytes(entries[k], endianness, is64)])
    \o StringTable

\* the arguments of one call: the command names extra entries more than the file
\* holds and a string table of strsize bytes
SymInput(magic, entries, extra, strsize) ==
    [src   |-> symtab_image(detect_endianness(magic), is_64_bit(magic), entries),
     cmd   |-> [symoff  |-> SymOff,
                nsyms   |-> Len(entries) + extra,
                stroff  |-> SymOff + Len(entries) * symbol_size(is_64_bit(magic)),
                strsize |-> strsize],
     magic |-> magic]

ThinMagics == {MAGIC_32_LE, MAGIC_64_LE, MAGIC_32_BE, MAGIC_64_BE}

SymInputs ==
    {SymInput(m, entries, extra, strsize) :
        m \in ThinMagics, entries \in SeqsUpTo(SymEntries, MaxSyms),
        extra \in {0, 1}, strsize \in {6, 8, 20}}
    \cup {SymInput(m, <<entry>>, 0, 8) : m \in ThinMagics, entry \in TypeEntries}
    \cup {SymInput(FAT_MAGIC, << >>, 0, 8)}

SymInit ==
    /\ \E input \in SymInputs :
        /\ src = input.src
        /\ symtab_cmd = input.cmd
        /\ sym_magic = input.magic
    /\ pos = 0
    /\ pc = "symtab"
    /\ err = ""
    /\ string_table = << >>
    /\ symbols = << >>
    /\ sym_i = 0
    /\ fat_header = NoFatHeader
    /\ fat_arch = NoFatArch
    /\ arch_i = 0
    /\ original_pos = 0
    /\ header_data = NoHeader
    /\ load_commands = << >>
    /\ cmd_i = 0
    /\ macho_file = 0
    /\ header_id = 0
    /\ session = EmptyTables
    /\ db_store = EmptyTables
    /\ xref_file_id = 0
    /\ xref_count = 0
    /\ xref_i = 0
    /\ returned = << >>
    /\ filepath = << >>
    /\ calls = 0
    /\ result = NoResult

\* is_64_bit, detect_endianness, then the string table is read and the file is put
\* at symoff
SymStart ==
    /\ pc = "symtab"
    /\ IF detect_endianness(sym_magic) = "ValueError"
       THEN /\ Fail("ValueError", pos)
            /\ string_table' = string_table
       ELSE /\ string_table' = Read(src, symtab_cmd.stroff, symtab_cmd.strsize)
            /\ pos' = symtab_cmd.symoff
            /\ pc' = "symbols"
            /\ err' = err
    /\ symbols' = << >>
    /\ sym_i' = 0
    /\ UNCHANGED <<src, symtab_cmd, sym_magic>>
    /\ UNCHANGED filevars
    /\ UNCHANGED xrefvars
    /\ UNCHANGED metavars

\* one iteration of for i in range(symtab_cmd.nsyms)
SymStep ==
    /\ pc = "symbols"
    /\ sym_i < symtab_cmd.nsyms
    /\ LET r == nlist_at(src, pos, detect_endianness(sym_magic), is_64_bit(sym_magic)) IN
       IF ~r.ok
       THEN /\ Fail(r.err, r.pos)
            /\ UNCHANGED <<symbols, sym_i>>
       ELSE /\ symbols' = Append(symbols, ParsedSymbol(r.nlist, string_table))
            /\ sym_i' = sym_i + 1
            /\ pos' = r.pos
            /\ pc' = pc
            /\ err' = err
    /\ UNCHANGED <<src, symtab_cmd, sym_magic, string_table>>
    /\ UNCHANGED filevars
    /\ UNCHANGED xrefvars
    /\ UNCHANGED metavars

\* return symbols
SymReturn ==
    /\ pc = "symbols"
    /\ sym_i = symtab_cmd.nsyms
    /\ pc' = "sym_done"
    /\ UNCHANGED <<src, pos, err, symtab_cmd, sym_magic, string_table, symbols, sym_i>>
    /\ UNCHANGED filevars
    /\ UNCHANGED xrefvars
    /\ UNCHANGED metavars

SymNext ==
    \/ SymStart
    \/ SymStep
    \/ SymReturn

SymSpec == SymInit /\ [][SymNext]_vars

(***************************************************************************)
(* Properties of parse_symbol_table                                        *)
(***************************************************************************)
\* byte order and word size the magic handed to parse_symbol_table stands for
SymEndianness ==
    IF sym_magic \in {<<254, 237, 250, 206>>, <<254, 237, 250, 207>>} THEN LITTLE ELSE BIG

Sym64 == sym_magic \in {<<254, 237, 250, 207>>, <<207, 250, 237, 254>>}

\* size of an nlist entry and file offset of the k-th entry, k from 1
EntrySize == IF Sym64 THEN 16 ELSE 12

EntryOffset(k) == symtab_cmd.symoff + EntrySize * (k - 1)

\* parse_symbol_table is in or behind its loop
SymbolsRead == pc \in {"symbols", "sym_done"}

\* C18: parse_symbol_table returns exactly nsyms symbols in table order, the i-th
\* decoded from the bytes at symoff + 12*i (32-bit magic) or symoff + 16*i (64-bit
\* magic), n_value being 4 or 8 bytes wide.
C18_SymbolsAtEntries ==
    /\ pc = "sym_done" => Len(symbols) = symtab_cmd.nsyms
    /\ SymbolsRead =>
        \A k \in 1..Len(symbols) :
            /\ EntryOffset(k) + EntrySize <= Len(src)
            /\ symbols[k].type = src[EntryOffset(k) + 5]
            /\ symbols[k].sect = src[EntryOffset(k) + 6]
            /\ symbols[k].value = UintAt(EntryOffset(k) + 8, IF Sym64 THEN 8 ELSE 4,
                                         SymEndianness)

\* C18 witness: two nlist_64 entries have been returned, the second with the value
\* that lies 16 bytes behind the first
C18_Witness ==
    /\ pc = "sym_done"
    /\ Sym64
    /\ symtab_cmd.nsyms = 2
    /\ symbols[1].value = 4096
    /\ symbols[2].value = 8192

\* the string table: the bytes of the file in [stroff, stroff + strsize)
TableBytes == Read(src, symtab_cmd.stroff, symtab_cmd.strsize)

\* the decimal digits of a number below 1000, as code points
Digits(n) ==
    IF n < 10 THEN <<48 + n>>
    ELSE IF n < 100 THEN <<48 + (n \div 10), 48 + (n % 10)>>
    ELSE <<48 + (n \div 100), 48 + ((n \div 10) % 10), 48 + (n % 10)>>

\* the name the claim gives the entry with string offset strx
ExpectedName(strx) ==
    IF strx < Len(TableBytes)
    THEN decode_utf8_replace(PrefixToNul(SubSeq(TableBytes, strx + 1, Len(TableBytes))))
    ELSE <<73, 78, 86, 65, 76, 73, 68, 95, 83, 84, 82, 73, 78, 71, 95,
           79, 70, 70, 83, 69, 84, 95>> \o Digits(strx)

\* C19: every nlist entry yields a Symbol: with n_strx inside the string table its
\* name is the bytes from n_strx to the next NUL (or the end of the table), with
\* n_strx at or beyond the end it is INVALID_STRING_OFFSET_<n_strx>; the decode
\* stops only for a magic that is none of a thin file or an entry cut by the end of
\* the file.
C19_NamesFromStringTable ==
    /\ SymbolsRead =>
        /\ Len(symbols) = sym_i
        /\ \A k \in 1..Len(symbols) :
            symbols[k].name = ExpectedName(UintAt(EntryOffset(k), 4, SymEndianness))
    /\ pc = "failed" =>
        \/ err = "ValueError" /\ sym_magic \notin ThinMagics
        \/ err = "struct.error" /\ EntryOffset(sym_i + 1) + EntrySize > Len(src)

\* C19 witness: an entry with n_strx = 200, beyond the table, got the sentinel name
\* and the entry behind it the name "_a"
C19_Witness ==
    /\ pc = "sym_done"
    /\ Len(symbols) = 2
    /\ symbols[1].name = <<73, 78, 86, 65, 76, 73, 68, 95, 83, 84, 82, 73, 78, 71, 95,
                           79, 70, 70, 83, 69, 84, 95, 50, 48, 48>>
    /\ symbols[2].name = <<95, 97>>

SwapIndex(i) ==
    LET f    == (i - 1 - symtab_cmd.symoff) % EntrySize
        base == i - f
    IN  IF i - 1 < symtab_cmd.symoff \/ i - 1 >= symtab_cmd.stroff THEN i
        ELSE IF f < 4 THEN base + (3 - f)
        ELSE IF f < 6 THEN i
        ELSE IF f < 8 THEN base + 6 + (7 - f)
        ELSE base + 8 + (EntrySize - 1 - f)

\* the encoding of the same symbols in the other byte order
ByteSwapped == [i \in 1..Len(src) |-> src[SwapIndex(i)]]

\* C12: decoding the encoding of the same logical file in the other byte order yields
\* the same symbols (name, type, sect, desc, value, classification).
C12_ByteOrderIndependent ==
    pc = "sym_done" =>
        LET twin == parse_symbol_table(ByteSwapped, symtab_cmd, Reverse(sym_magic)) IN
        twin.ok /\ twin.symbols = symbols

Int16At(off, e) ==
    IF UintAt(off, 2, e) >= 32768 THEN UintAt(off, 2, e) - 65536 ELSE UintAt(off, 2, e)

\* C27: n_strx, n_desc and n_value of every nlist entry are decoded in the byte order
\* the magic selects; n_desc is the signed 16-bit value of its two bytes in that order.
C27_FieldsInByteOrderOfMagic ==
    SymbolsRead =>
        \A k \in 1..Len(symbols) :
            /\ symbols[k].value = UintAt(EntryOffset(k) + 8, IF Sym64 THEN 8 ELSE 4,
                                         SymEndianness)
            /\ symbols[k].desc = Int16At(EntryOffset(k) + 6, SymEndianness)

\* the position the walk of the load commands left the reader at
EndOfWalk ==
    IF load_commands = << >> THEN (IF header_data.is_64_bit THEN 32 ELSE 28)
    ELSE load_commands[Len(load_commands)].cmd_offset
         + Len(load_commands[Len(load_commands)].cmd_data)

\* C28: the segments returned correspond one to one, in order, to the load commands of
\* type 0x1 or 0x19; every load command is retained as type, size, offset and raw
\* bytes; the reader is where the walk of the load commands left it.
C28_SegmentsOfSegmentCommands ==
    ThinParsed =>
        /\ Len(db_store.segments) = Len(SegmentCommands)
        /\ \A k \in 1..Len(db_store.segments) :
            /\ db_store.segments[k].maxprot =
                 UintAt(SegmentCommands[k].cmd_offset
                        + (IF header_data.is_64_bit THEN 56 ELSE 40), 4,
                        header_data.endianness)
            /\ db_store.segments[k].segname =
                 rstrip_nul(decode_utf8(SubSeq(src, SegmentCommands[k].cmd_offset + 9,
                                               SegmentCommands[k].cmd_offset + 24)).str)
        /\ Len(db_store.load_commands) = header_data.ncmds
        /\ \A k \in 1..Len(db_store.load_commands) :
            LET c == db_store.load_commands[k] IN
            /\ c.cmd_type = WordAt(c.cmd_offset, header_data.endianness)
            /\ c.cmd_size = WordAt(c.cmd_offset + 4, header_data.endianness)
            /\ c.cmd_data = Read(src, c.cmd_offset, c.cmd_size)
        /\ pos = EndOfWalk

\* C28 witness: a 64-bit file of a symtab command and an LC_SEGMENT_64 command has
\* been parsed: one segment, two load commands
C28_Witness ==
    /\ ThinParsed
    /\ header_data.is_64_bit
    /\ Len(db_store.load_commands) = 2
    /\ db_store.load_commands[1].cmd_type = 2
    /\ db_store.load_commands[2].cmd_type = 25
    /\ Len(db_store.segments) = 1

MaxXrefSyms == 2
MaxRuns == 2

\* a nullable column that was not set
None == -1

\* the tables identify_cross_references reads and writes
XrefTables ==
    [files |-> << >>, segments |-> << >>, sections |-> << >>,
     symbols |-> << >>, cross_references |-> << >>]

\* Model.query.filter_by(column=v).all(), in stored order
filter_by(rows, column, v) ==
    LET matches(r) == r[column] = v IN SelectSeq(rows, matches)

\* Model.query.get(id): the list holding the row, empty when there is none
query_get(rows, id) == filter_by(rows, "id", id)

\* sections = []; for segment in segments: sections.extend(...)
sections_of(store, fid) ==
    LET segments == filter_by(store.segments, "file_id", fid) IN
    Flatten([k \in 1..Len(segments) |->
                 filter_by(store.sections, "segment_id", segments[k].id)])

section_contains_inclusive(section, value) ==
    section.addr <= value /\ value <= section.addr + section.size

\* section.addr <= symbol.value < section.addr + section.size
section_contains(section, value) ==
    section.addr <= value /\ value < section.addr + section.size

contains_sources_no_break(sections, value) ==
    LET holds(section) == section_contains(section, value) IN
    SelectSeq(sections, holds)

\* for section in sections: if ...: ...; break -- the sections that get an edge
contains_sources(sections, value) ==
    LET holds(section) == section_contains(section, value)
        hits == SelectSeq(sections, holds) IN
    IF hits = << >> THEN << >> ELSE <<Head(hits)>>

\* CrossReference(...) of the first loop
ContainsEdge(id, fid, section, symbol) ==
    [id |-> id, file_id |-> fid, source_type |-> "section", source_id |-> section.id,
     target_type |-> "symbol", target_id |-> symbol.id,
     offset |-> symbol.value - section.addr, reference_type |-> "contains"]

\* CrossReference(...) of the second loop
ReferencesEdge(id, fid, symbol, target_sym) ==
    [id |-> id, file_id |-> fid, source_type |-> "symbol", source_id |-> symbol.id,
     target_type |-> "symbol", target_id |-> target_sym.id,
     offset |-> None, reference_type |-> "references"]

\* the edges one iteration of the first loop adds for symbol
contains_edges(store, pending, fid, symbol) ==
    IF ~symbol.is_defined THEN << >>
    ELSE LET sources == contains_sources(sections_of(store, fid), symbol.value)
             first == next_id(store, pending, "cross_references") IN
         [k \in 1..Len(sources) |-> ContainsEdge(first + k - 1, fid, sources[k], symbol)]

\* if not symbol.is_defined or symbol.sect == 0: continue
references_source(symbol) == symbol.is_defined /\ symbol.sect # 0

\* the edges one iteration of the second loop adds for symbol
references_edges(store, pending, fid, symbol) ==
    IF ~references_source(symbol) THEN << >>
    ELSE LET same_value(target_sym) ==
                 symbol.id # target_sym.id /\ symbol.value = target_sym.value
             targets == SelectSeq(filter_by(store.symbols, "file_id", fid), same_value)
             first == next_id(store, pending, "cross_references") IN
         [k \in 1..Len(targets) |-> ReferencesEdge(first + k - 1, fid, symbol, targets[k])]

count_contains_edges(count, edges) ==
    LET is_contains(e) == e.reference_type = "contains" IN
    count + Len(SelectSeq(edges, is_contains))

\* xref_count += 1, once for every edge added
count_edges(count, edges) == count + Len(edges)

\* rows of the stored file the calls are about: the columns the function reads
SymbolRow(id, fid, kind) ==
    [id |-> id, file_id |-> fid, value |-> kind[1], sect |-> kind[2], is_defined |-> kind[3]]

SectionRow(id, segment_id, range) ==
    [id |-> id, segment_id |-> segment_id, addr |-> range[1], size |-> range[2]]

\* value, sect and is_defined of the symbols of file 1
SymbolKinds ==
    {<<4, 1, TRUE>>, <<4, 0, TRUE>>, <<4, 0, FALSE>>, <<0, 1, TRUE>>, <<12, 1, TRUE>>}

\* addr and size of the sections of file 1
SectionRanges == {<<0, 8>>, <<4, 8>>, <<4, 0>>}

\* file 1 owns segments 1 and 3 and sections 2, 4 (of segment 1) and 1 (of segment 3);
\* file 2 owns segment 2, section 3 and the first and the last symbol; no file 3
XrefStore(kinds, r1, r2, r4) ==
    [files |-> <<[id |-> 1], [id |-> 2]>>,
     segments |-> <<[id |-> 1, file_id |-> 1], [id |-> 2, file_id |-> 2],
                    [id |-> 3, file_id |-> 1]>>,
     sections |-> <<SectionRow(1, 3, r1), SectionRow(2, 1, r2),
                    SectionRow(3, 2, <<0, 8>>), SectionRow(4, 1, r4)>>,
     symbols |-> <<SymbolRow(1, 2, <<4, 1, TRUE>>)>>
                 \o [k \in 1..Len(kinds) |-> SymbolRow(k + 1, 1, kinds[k])]
                 \o <<SymbolRow(Len(kinds) + 2, 2, <<4, 1, TRUE>>)>>,
     cross_references |-> << >>]

XrefStores ==
    {XrefStore(kinds, r1, r2, r4) :
        kinds \in SeqsUpTo(SymbolKinds, MaxXrefSyms),
        r1 \in {<<0, 8>>, <<4, 8>>}, r2 \in SectionRanges, r4 \in {<<0, 8>>, <<4, 0>>}}

FileIds == {1, 2, 3}

XrefInit ==
    /\ db_store \in XrefStores
    /\ session = XrefTables
    /\ pc = "xref"
    /\ err = ""
    /\ src = << >>
    /\ pos = 0
    /\ xref_file_id = 0
    /\ xref_count = 0
    /\ xref_i = 0
    /\ returned = << >>
    /\ fat_header = NoFatHeader
    /\ fat_arch = NoFatArch
    /\ arch_i = 0
    /\ original_pos = 0
    /\ header_data = NoHeader
    /\ load_commands = << >>
    /\ cmd_i = 0
    /\ macho_file = 0
    /\ header_id = 0
    /\ symtab_cmd = NoSymtab
    /\ sym_magic = << >>
    /\ string_table = << >>
    /\ symbols = << >>
    /\ sym_i = 0
    /\ filepath = << >>
    /\ calls = 0
    /\ result = NoResult

\* what no step of identify_cross_references changes
xref_frame ==
    <<src, pos, err, fat_header, fat_arch, arch_i, original_pos, header_data,
      load_commands, cmd_i, macho_file, header_id, symvars, metavars>>

\* symbols = Symbol.query.filter_by(file_id=file_id).all()
xref_symbols == filter_by(db_store.symbols, "file_id", xref_file_id)

\* a call: the file is looked up; return 0 when there is none
XrefStart ==
    /\ pc = "xref"
    /\ Len(returned) < MaxRuns
    /\ \E fid \in FileIds :
        /\ xref_file_id' = fid
        /\ IF query_get(db_store.files, fid) = << >>
           THEN /\ returned' = Append(returned, [file_id |-> fid, count |-> 0])
                /\ pc' = pc
           ELSE /\ returned' = returned
                /\ pc' = "contains"
    /\ xref_count' = 0
    /\ xref_i' = 1
    /\ UNCHANGED <<session, db_store>>
    /\ UNCHANGED xref_frame

\* one iteration of the first for symbol in symbols, or its end
XrefContains ==
    /\ pc = "contains"
    /\ IF xref_i > Len(xref_symbols)
       THEN /\ pc' = "references"
            /\ xref_i' = 1
            /\ UNCHANGED <<session, xref_count>>
       ELSE LET edges == contains_edges(db_store, session, xref_file_id,
                                        xref_symbols[xref_i]) IN
            /\ session' = [session EXCEPT !.cross_references = @ \o edges]
            /\ xref_count' = count_edges(xref_count, edges)
            /\ xref_i' = xref_i + 1
            /\ pc' = pc
    /\ UNCHANGED <<db_store, xref_file_id, returned>>
    /\ UNCHANGED xref_frame

\* one iteration of the second for symbol in symbols, or its end
XrefReferences ==
    /\ pc = "references"
    /\ IF xref_i > Len(xref_symbols)
       THEN /\ pc' = "commit"
            /\ UNCHANGED <<session, xref_count, xref_i>>
       ELSE LET edges == references_edges(db_store, session, xref_file_id,
                                          xref_symbols[xref_i]) IN
            /\ session' = [session EXCEPT !.cross_references = @ \o edges]
            /\ xref_count' = count_edges(xref_count, edges)
            /\ xref_i' = xref_i + 1
            /\ pc' = pc
    /\ UNCHANGED <<db_store, xref_file_id, returned>>
    /\ UNCHANGED xref_frame

\* db.session.commit(); return xref_count
XrefCommit ==
    /\ pc = "commit"
    /\ db_store' = commit(db_store, session)
    /\ session' = XrefTables
    /\ returned' = Append(returned, [file_id |-> xref_file_id, count |-> xref_count])
    /\ pc' = "xref"
    /\ UNCHANGED <<xref_file_id, xref_count, xref_i>>
    /\ UNCHANGED xref_frame

XrefNext ==
    \/ XrefStart
    \/ XrefContains
    \/ XrefReferences
    \/ XrefCommit

XrefSpec == XrefInit /\ [][XrefNext]_vars

(***************************************************************************)
(* Properties of identify_cross_references.                                *)
(***************************************************************************)
\* every edge added so far, committed or not
AllEdges == db_store.cross_references \o session.cross_references

EdgesOfType(edges, type) ==
    LET of_type(e) == e.reference_type = type IN SelectSeq(edges, of_type)

\* the row of a table with this id
RowOf(rows, id) == CHOOSE r \in {rows[k] : k \in 1..Len(rows)} : r.id = id

HasRow(rows, id) == \E k \in 1..Len(rows) : rows[k].id = id

\* the file that owns a section, through its segment
FileOfSection(s) == RowOf(db_store.segments, s.segment_id).file_id

\* C22: every contains edge goes from a section s to a defined symbol y of the same file
\* with s.addr <= y.value < s.addr + s.size, and its offset is y.value - s.addr, so
\* 0 <= offset < s.size; no contains edge has an undefined symbol as its target or a
\* zero-size section as its source
C22_ContainsWithinSection ==
    \A k \in 1..Len(AllEdges) :
        LET e == AllEdges[k] IN
        e.reference_type = "contains" =>
            /\ e.source_type = "section" /\ e.target_type = "symbol"
            /\ HasRow(db_store.sections, e.source_id)
            /\ HasRow(db_store.symbols, e.target_id)
            /\ LET s == RowOf(db_store.sections, e.source_id)
                   y == RowOf(db_store.symbols, e.target_id) IN
               /\ y.is_defined
               /\ y.file_id = e.file_id
               /\ FileOfSection(s) = e.file_id
               /\ s.addr <= y.value /\ y.value < s.addr + s.size
               /\ e.offset = y.value - s.addr
               /\ 0 <= e.offset /\ e.offset < s.size
               /\ s.size # 0

\* a run on file 1 committed a contains edge with a nonzero offset although the first
\* section scanned has size zero at the symbol's address and an undefined symbol of the
\* file has a value inside a section
C22_Witness ==
    /\ pc = "xref"
    /\ \E k \in 1..Len(db_store.cross_references) :
        LET e == db_store.cross_references[k] IN
        /\ e.reference_type = "contains" /\ e.file_id = 1 /\ e.offset = 4
        /\ RowOf(db_store.symbols, e.target_id).value = 4
    /\ RowOf(db_store.sections, 2).size = 0
    /\ RowOf(db_store.sections, 1).addr = 4
    /\ \E j \in 1..Len(db_store.symbols) :
        db_store.symbols[j].file_id = 1 /\ ~db_store.symbols[j].is_defined

\* the number of elements of a list that satisfy a test on (source_id, target_id)
EdgeCount(edges, type, source_id, target_id) ==
    LET same(e) == /\ e.reference_type = type
                   /\ e.source_id = source_id
                   /\ e.target_id = target_id IN
    Len(SelectSeq(edges, same))

\* one call has returned, and it was for a file that exists
FirstRunDone ==
    /\ pc = "xref"
    /\ Len(returned) = 1
    /\ HasRow(db_store.files, returned[1].file_id)

SymbolsOfFile(fid) == filter_by(db_store.symbols, "file_id", fid)

\* C23: the references edges of one run are exactly, once each, the ordered pairs (a, b)
\* of distinct symbols of the file with a and b both defined, a.sect # 0 and
\* a.value = b.value; no references edge has an undefined symbol as its target
C23_ReferencesBetweenDefined ==
    FirstRunDone =>
        LET fid == returned[1].file_id
            syms == SymbolsOfFile(fid)
            edges == EdgesOfType(db_store.cross_references, "references") IN
        /\ \A i, j \in 1..Len(syms) :
               LET a == syms[i]
                   b == syms[j] IN
               EdgeCount(edges, "references", a.id, b.id) =
                   IF /\ i # j
                      /\ a.is_defined /\ b.is_defined
                      /\ a.sect # 0
                      /\ a.value = b.value
                   THEN 1 ELSE 0
        /\ \A k \in 1..Len(edges) :
               /\ edges[k].file_id = fid
               /\ \E i, j \in 1..Len(syms) :
                      edges[k].source_id = syms[i].id /\ edges[k].target_id = syms[j].id
               /\ RowOf(db_store.symbols, edges[k].target_id).is_defined

\* the call that has just returned, on a step that returns
Returns == Len(returned') = Len(returned) + 1

LastReturned == returned'[Len(returned')]

\* C24: the integer a call returns is the number of edges that call added to the store;
\* a call for a file id that does not exist returns 0 and adds no edge
C24_ReturnsEdgesAdded ==
    [][Returns =>
          LET added == Len(db_store'.cross_references) - Len(db_store.cross_references) IN
          /\ LastReturned.count = added
          /\ SubSeq(db_store'.cross_references, 1, Len(db_store.cross_references))
                 = db_store.cross_references
          /\ \A k \in Len(db_store.cross_references) + 1..Len(db_store'.cross_references) :
                 db_store'.cross_references[k].file_id = LastReturned.file_id
          /\ ~HasRow(db_store.files, LastReturned.file_id) =>
                 /\ LastReturned.count = 0
                 /\ db_store' = db_store
                 /\ session' = session /\ session.cross_references = << >>]_vars

\* a call for the missing file 3 returned 0 and a call for file 1 returned 3 after it
\* committed contains and references edges
C24_Witness ==
    /\ pc = "xref"
    /\ \E m, n \in 1..Len(returned) :
        /\ returned[m] = [file_id |-> 3, count |-> 0]
        /\ returned[n] = [file_id |-> 1, count |-> 3]
    /\ Len(db_store.cross_references) = 3
    /\ EdgesOfType(db_store.cross_references, "contains") # << >>
    /\ EdgesOfType(db_store.cross_references, "references") # << >>

\* the calls made so far for file fid, as positions in returned
RunsOn(fid) == {n \in 1..Len(returned) : returned[n].file_id = fid}

\* the committed edges of file fid, in stored order
EdgesOfFile(fid) == filter_by(db_store.cross_references, "file_id", fid)

\* an edge without the id the store gave it
Unnumbered(e) == [e EXCEPT !.id = 0]

\* how often an edge is stored, ids aside
Copies(edges, e) ==
    LET same(x) == Unnumbered(x) = Unnumbered(e) IN Len(SelectSeq(edges, same))

\* C25: the function does not deduplicate: k calls for an unchanged file whose edges were
\* not cleared return the same count c every time and leave exactly k*c edges stored,
\* each edge of the first run stored k times; with k >= 2 and c > 0 the stored edges are
\* not those of a single run
C25_RunsAccumulate ==
    pc = "xref" =>
        \A fid \in FileIds :
            LET k == Cardinality(RunsOn(fid))
                edges == EdgesOfFile(fid) IN
            k > 0 =>
                LET c == returned[CHOOSE n \in RunsOn(fid) : TRUE].count
                    first_run == SubSeq(edges, 1, c) IN
                /\ \A n \in RunsOn(fid) : returned[n].count = c
                /\ Len(edges) = k * c
                /\ \A j \in 1..Len(first_run) : Copies(edges, first_run[j]) = k
                /\ \A j \in 1..Len(edges) : Copies(first_run, edges[j]) = 1
                /\ (k >= 2 /\ c > 0) => edges # first_run

\* two calls for file 1 returned 3 each and six edges of file 1 are stored
C25_Witness ==
    /\ pc = "xref"
    /\ returned = <<[file_id |-> 1, count |-> 3], [file_id |-> 1, count |-> 3]>>
    /\ Len(EdgesOfFile(1)) = 6

\* the position of the row with this id in its table
PositionOf(rows, id) == CHOOSE k \in 1..Len(rows) : rows[k].id = id

\* s1 is scanned before s2: its segment is stored earlier, or they share the segment
\* and s1 is stored earlier
ScannedBefore(s1, s2) ==
    LET g1 == PositionOf(db_store.segments, s1.segment_id)
        g2 == PositionOf(db_store.segments, s2.segment_id) IN
    \/ g1 < g2
    \/ g1 = g2 /\ PositionOf(db_store.sections, s1.id) < PositionOf(db_store.sections, s2.id)

\* the sections of file fid whose address range holds value
Holding(fid, value) ==
    {s \in {db_store.sections[k] : k \in 1..Len(db_store.sections)} :
        /\ FileOfSection(s) = fid
        /\ s.addr <= value /\ value < s.addr + s.size}

\* C26: a run emits at most one contains edge for a symbol, and for a defined symbol
\* whose value lies in some section its source is the first such section in scan order
\* (segments in stored order, sections of a segment in stored order), also when later
\* sections hold the value as well
C26_FirstSectionWins ==
    FirstRunDone =>
        LET fid == returned[1].file_id
            syms == SymbolsOfFile(fid)
            edges == EdgesOfType(db_store.cross_references, "contains") IN
        \A i \in 1..Len(syms) :
            LET y == syms[i]
                to_y(e) == e.target_id = y.id
                mine == SelectSeq(edges, to_y) IN
            /\ Len(mine) <= 1
            /\ (y.is_defined /\ Holding(fid, y.value) # {}) =>
                   /\ Len(mine) = 1
                   /\ LET s == RowOf(db_store.sections, mine[1].source_id) IN
                      /\ s \in Holding(fid, y.value)
                      /\ \A t \in Holding(fid, y.value) : t = s \/ ScannedBefore(s, t)

\* a run on file 1 gave a symbol one contains edge from section 4, the second section
\* scanned, although section 1, scanned last and stored first, holds its value too
C26_Witness ==
    /\ FirstRunDone
    /\ returned[1].file_id = 1
    /\ \E k \in 1..Len(db_store.cross_references) :
        LET e == db_store.cross_references[k] IN
        /\ e.reference_type = "contains"
        /\ e.source_id = 4
        /\ RowOf(db_store.sections, 1) \in
               Holding(1, RowOf(db_store.symbols, e.target_id).value)

(***************************************************************************)
(* extract_file_metadata, called before or after parse_file ran on the     *)
(* file at parsed_path.                                                    *)
(***************************************************************************)
MaxCalls == 2

\* the files on disk: the parsed file, a copy of it under another name, a file of
\* other content; nothing is stored at the last path
Paths == {parsed_path, <<"b", "y">>, <<"b", "z">>, <<"c", "w">>}

path_exists(path) == path # <<"c", "w">>

content_at(path) == IF path = <<"b", "z">> THEN src \o <<0>> ELSE src

\* the images parse_file is run on here: thin and fat ones, parsed and rejected ones
MetaImages ==
    {thin_image(LITTLE, TRUE, <<"segment">>, 0, 0),
     thin_image(BIG, FALSE, <<"symtab12">>, 0, 0),
     thin_image(LITTLE, FALSE, <<"symtab8">>, 0, 4),
     fat_image(FALSE, <<<<1, 0>>, <<2, 0>>>>,
               thin_image(LITTLE, TRUE, << >>, 0, 0),
               thin_image(BIG, FALSE, <<"symtab12">>, 0, 0)),
     fat_image(FALSE, <<<<1, 0>>>>, Zeros(32), Zeros(32)),
     Zeros(32)}

\* the attributes of the MachoFile model: columns, relationships and backrefs
MachoFileAttributes ==
    {"id", "filename", "filepath", "file_size", "creation_date", "md5_hash",
     "user_notes", "is_fat_binary", "headers", "segments", "edit_history",
     "symbols", "cross_references"}

\* the keyword arguments extract_file_metadata constructs its MachoFile with
MetadataKeywords ==
    {"filename", "filepath", "file_size", "md5_hash", "file_type", "architecture",
     "creation_date"}

\* the constructor of a model raises TypeError for a keyword that is no attribute
constructor_accepts(attributes, keywords) == keywords \subseteq attributes

\* MachO(filepath) of macholib: content without a Mach-O or fat magic is rejected,
\* other content may be rejected further on
macho_outcomes(content) ==
    IF is_fat_binary(content, 0) \/ detect_endianness(Read(content, 0, 4)) # "ValueError"
    THEN {TRUE, FALSE}
    ELSE {FALSE}

update_existing_path_only(row, path, size) ==
    [row EXCEPT !.filepath = path, !.file_size = size]

\* existing_file.filepath = filepath; .filename = filename; .file_size = file_size
update_existing(row, path, size) ==
    [row EXCEPT !.filepath = path, !.filename = basename(path), !.file_size = size]

\* MachoFile.query.filter_by(md5_hash=...).first(): the position of the row, 0 for None
existing_file(files, digest) ==
    IF \E k \in 1..Len(files) : files[k].md5_hash = digest
    THEN CHOOSE k \in 1..Len(files) :
             /\ files[k].md5_hash = digest
             /\ \A j \in 1..(k - 1) : files[j].md5_hash # digest
    ELSE 0

\* MachoFile(...) of extract_file_metadata
MetadataFile(id, path, size, digest) ==
    [id |-> id, filename |-> basename(path), filepath |-> path, file_size |-> size,
     md5_hash |-> digest, is_fat_binary |-> FALSE]

Raised(kind) == [ok |-> FALSE, err |-> kind, id |-> 0]

Returned(id) == [ok |-> TRUE, err |-> "", id |-> id]

\* one call of extract_file_metadata(filepath)
ExtractFileMetadata ==
    /\ pc \in {"open", "done", "failed"}
    /\ calls < MaxCalls
    /\ calls' = calls + 1
    /\ \E path \in Paths :
        /\ filepath' = path
        /\ IF ~path_exists(path)
           THEN /\ result' = Raised("FileNotFoundError")
                /\ db_store' = db_store
           ELSE LET content == content_at(path)
                    digest == hexdigest(content)
                    k == existing_file(db_store.files, digest) IN
                IF k # 0
                THEN /\ db_store' = [db_store EXCEPT
                            !.files[k] = update_existing(@, path, Len(content))]
                     /\ result' = Returned(db_store.files[k].id)
                ELSE \E accepted \in macho_outcomes(content) :
                     IF ~accepted
                     THEN /\ result' = Raised("Exception")
                          /\ db_store' = db_store
                     ELSE IF ~constructor_accepts(MachoFileAttributes, MetadataKeywords)
                     THEN /\ result' = Raised("TypeError")
                          /\ db_store' = db_store
                     ELSE LET id == next_id(db_store, session, "files") IN
                          /\ db_store' = commit(db_store,
                                [session EXCEPT !.files =
                                    Append(@, MetadataFile(id, path, Len(content), digest))])
                          /\ result' = Returned(id)
    /\ UNCHANGED <<src, pos, pc, err, session>>
    /\ UNCHANGED <<fat_header, fat_arch, arch_i, original_pos, header_data, load_commands,
                   cmd_i, macho_file, header_id>>
    /\ UNCHANGED symvars
    /\ UNCHANGED xrefvars

MetaInit ==
    /\ src \in MetaImages
    /\ pos = 0
    /\ pc = "open"
    /\ err = ""
    /\ fat_header = NoFatHeader
    /\ fat_arch = NoFatArch
    /\ arch_i = 0
    /\ original_pos = 0
    /\ header_data = NoHeader
    /\ load_commands = << >>
    /\ cmd_i = 0
    /\ macho_file = 0
    /\ header_id = 0
    /\ session = EmptyTables
    /\ db_store = EmptyTables
    /\ symtab_cmd = NoSymtab
    /\ sym_magic = << >>
    /\ string_table = << >>
    /\ symbols = << >>
    /\ sym_i = 0
    /\ xref_file_id = 0
    /\ xref_count = 0
    /\ xref_i = 0
    /\ returned = << >>
    /\ filepath = << >>
    /\ calls = 0
    /\ result = NoResult

MetaNext ==
    \/ Open
    \/ FatHeader
    \/ FatArch
    \/ FatReturn
    \/ FatSliceHeader
    \/ ThinHeader
    \/ WalkStart
    \/ WalkStep
    \/ WalkReturn
    \/ SegmentsAndSections
    \/ ExtractFileMetadata

MetaSpec == MetaInit /\ [][MetaNext]_vars

(***************************************************************************)
(* Properties of extract_file_metadata.                                    *)
(***************************************************************************)
\* a step that is one call of extract_file_metadata
MetadataCall == calls' = calls + 1

\* the positions of the stored file records with this digest
WithDigest(files, digest) == {k \in 1..Len(files) : files[k].md5_hash = digest}

====
